---- MODULE Spec2Model ----
(***************************************************************************)
(* The submit -> poll -> resolve protocol of the 2captcha client           *)
(* (src/src/solver.rs, src/src/api.rs, src/src/utils.rs), as a state       *)
(* machine.  A call suspends only at its awaits (an HTTP request, a        *)
(* sleep); one action runs a call from one await to the next.  Time is     *)
(* counted in whole seconds, the unit of the Timeout message.              *)
(***************************************************************************)
EXTENDS Integers, Sequences, FiniteSets, TLC

VARIABLES
    client,     \* the TwoCaptcha struct (solver.rs:14-24), set by new()
    provider,   \* environment: how the provider behaves in this run
    calls,      \* the calls this run makes on the client
    pc,         \* pc[c]: where call c is suspended
    op,         \* op[c]: the entry point and arguments of call c
    timeout,    \* timeout[c]: the local `timeout` of solve()
    sleep_interval, \* sleep_interval[c]: the local `sleep_interval` of solve()
    id,         \* id[c]: the local `id` of solve(), the task id send() returned
    elapsed,    \* elapsed[c]: start.elapsed() of wait_result()
    result,     \* result[c]: what the call returned to its caller
    net,        \* the HTTP requests that are in flight
    obs,        \* obs[c]: what call c has done so far (requests, sleeps, last answers)
    arg,        \* the function of Utils (or file resolution of audio()) a run
                \* applies on its own, and its arguments
    ret         \* what that function returned, and the accesses it made

vars == <<client, provider, calls, pc, op, timeout, sleep_interval,
          id, elapsed, result, net, obs, arg, ret>>

----------------------------------------------------------------------------
(* Bounds of the model *)

\* timeouts range over 0..MaxTimeout seconds
MaxTimeout == 2
\* polling intervals range over 1..MaxInterval seconds
MaxInterval == 2
\* a result fetch takes 0..MaxLatency seconds
MaxLatency == 2
\* a sleep ends 0..MaxSleepLag seconds after its deadline
MaxSleepLag == 1

AllCalls == {"c1", "c2"}

----------------------------------------------------------------------------
(* Option<T>, HashMap<String, T> and str *)

None == <<>>
Some(v) == <<v>>

EmptyMap == [k \in {} |-> ""]
Has(m, k) == k \in DOMAIN m
Put(m, k, v) == [x \in DOMAIN m \cup {k} |-> IF x = k THEN v ELSE m[x]]
Del(m, k) == [x \in DOMAIN m \ {k} |-> m[x]]
\* HashMap::extend: the entries of m2 replace those of m
Extend(m, m2) == [x \in DOMAIN m \cup DOMAIN m2 |-> IF x \in DOMAIN m2 THEN m2[x] ELSE m[x]]

\* str::contains
Contains(s, pat) ==
    \E i \in 1..(Len(s) - Len(pat) + 1) : SubSeq(s, i, i + Len(pat) - 1) = pat
\* str::starts_with
StartsWith(s, pat) == Len(s) >= Len(pat) /\ SubSeq(s, 1, Len(pat)) = pat
\* str::ends_with
EndsWith(s, pat) == Len(s) >= Len(pat) /\ SubSeq(s, Len(s) - Len(pat) + 1, Len(s)) = pat
\* &s[n..]
From(s, n) == SubSeq(s, n + 1, Len(s))

----------------------------------------------------------------------------
(* Result<String> and TwoCaptchaError *)

Ok(v) == [ok |-> TRUE, val |-> v, kind |-> "", msg |-> ""]
Err(k, m) == [ok |-> FALSE, val |-> "", kind |-> k, msg |-> m]

ErrorKinds == {"Validation", "Network", "Api", "Timeout", "Request", "Json",
               "Base64", "Io", "UrlParse"}

----------------------------------------------------------------------------
(* What the network does with one HTTP request.  The request either fails  *)
(* before a response arrives, or a response with a status line and a body  *)
(* arrives; reading the body can fail too.                                 *)

SendFailed == [t |-> "send_failed", status |-> 0, text |-> "", body_ok |-> FALSE]
Response(status, text, body_ok) ==
    [t |-> "response", status |-> status, text |-> text, body_ok |-> body_ok]
NoHttp == [t |-> "none", status |-> 0, text |-> "", body_ok |-> FALSE]

\* Display of http::StatusCode, used by format!("bad response: {}", status)
StatusLine(status) ==
    CASE status = 200 -> "200 OK"
      [] status = 404 -> "404 Not Found"
      [] status = 500 -> "500 Internal Server Error"
      [] OTHER -> ToString(status)

Statuses == {200, 500}

\* ApiClient::handle_response; first a faulty variant that tests the payload
\* before the status
handle_response_payload_first(o) ==
    IF o.body_ok /\ Contains(o.text, "ERROR") THEN Err("Api", o.text)
    ELSE IF o.status # 200 THEN Err("Network", "bad response: " \o StatusLine(o.status))
    ELSE IF ~o.body_ok THEN Err("Request", "error decoding response body")
    ELSE Ok(o.text)

handle_response(o) ==
    IF o.status # 200 THEN Err("Network", "bad response: " \o StatusLine(o.status))
    ELSE IF ~o.body_ok THEN Err("Request", "error decoding response body")
    ELSE IF Contains(o.text, "ERROR") THEN Err("Api", o.text)
    ELSE Ok(o.text)

\* ApiClient::in_, from `.send().await?` on: o is what the network did
in_(o) ==
    IF o.t = "send_failed" THEN Err("Request", "error sending request")
    ELSE handle_response(o)

\* ApiClient::res, from `.send().await?` on
res(o) ==
    IF o.t = "send_failed" THEN Err("Request", "error sending request")
    ELSE handle_response(o)

----------------------------------------------------------------------------
(* serde_json on the payloads the provider sends in this model.  A Value   *)
(* is [t, n, s]: an integer holds n, a string holds s, a nested array or   *)
(* object is kept by its text s.                                           *)

JInt(n) == [t |-> "int", n |-> n, s |-> ""]
JStr(s) == [t |-> "str", n |-> 0, s |-> s]
JNested(t, s) == [t |-> t, n |-> 0, s |-> s]

JNotReady == "{\"status\":0,\"request\":\"CAPCHA_NOT_READY\"}"
JReady == "{\"status\":1,\"request\":\"tok\"}"
JCookies == "{\"status\":1,\"request\":\"tok\",\"cookies\":{\"sid\":\"1\"},\"useragent\":\"UA\"}"
JCoords == "{\"status\":1,\"request\":[{\"x\":\"7\",\"y\":\"9\"}]}"
JStatus2 == "{\"status\":2,\"request\":\"tok\"}"
JNoStatus == "{\"request\":\"tok\"}"
JStrStatus == "{\"status\":\"1\",\"request\":\"tok\"}"
JArray == "[]"
JError == "{\"status\":0,\"request\":\"ERROR_CAPTCHA_UNSOLVABLE\"}"

JObject(fields) == [obj |-> TRUE, fields |-> fields]
JOther == [obj |-> FALSE, fields |-> EmptyMap]

\* serde_json::from_str::<Value>: None is a syntax error
from_str_Value(text) ==
    CASE text = JNotReady ->
            Some(JObject([status |-> JInt(0), request |-> JStr("CAPCHA_NOT_READY")]))
      [] text = JReady ->
            Some(JObject([status |-> JInt(1), request |-> JStr("tok")]))
      [] text = JCookies ->
            Some(JObject([status |-> JInt(1), request |-> JStr("tok"),
                          cookies |-> JNested("object", "{\"sid\":\"1\"}"),
                          useragent |-> JStr("UA")]))
      [] text = JCoords ->
            Some(JObject([status |-> JInt(1),
                          request |-> JNested("array", "[{\"x\":\"7\",\"y\":\"9\"}]")]))
      [] text = JStatus2 ->
            Some(JObject([status |-> JInt(2), request |-> JStr("tok")]))
      [] text = JNoStatus ->
            Some(JObject([request |-> JStr("tok")]))
      [] text = JStrStatus ->
            Some(JObject([status |-> JStr("1"), request |-> JStr("tok")]))
      [] text = JError ->
            Some(JObject([status |-> JInt(0), request |-> JStr("ERROR_CAPTCHA_UNSOLVABLE")]))
      [] text = JArray -> Some(JOther)
      [] OTHER -> None

\* response_data.get("status").and_then(|v| v.as_i64())
status_as_i64(v) ==
    IF v.obj /\ Has(v.fields, "status") /\ v.fields["status"].t = "int"
    THEN Some(v.fields["status"].n)
    ELSE None

\* a field of type Option<String>: absent and null are None, a string is Some
OptString(f, k) == ~Has(f, k) \/ f[k].t \in {"null", "str"}
\* a field of type Option<HashMap<String, String>>
OptStringMap(f, k) ==
    \/ ~Has(f, k)
    \/ f[k].t = "null"
    \/ f[k].t = "object" /\ f[k].s \in {"{}", "{\"sid\":\"1\"}"}

\* serde_json::from_str::<ExtendedResponse> (types.rs:13-21): None is an error
from_str_ExtendedResponse(text) ==
    LET v == from_str_Value(text) IN
    IF v = None THEN None
    ELSE LET f == v[1].fields IN
         IF /\ v[1].obj
            /\ Has(f, "status") /\ f["status"].t = "int"
            /\ OptString(f, "request")
            /\ OptString(f, "code")
            /\ OptStringMap(f, "cookies")
         THEN Some([status |-> f["status"].n,
                    request |-> IF Has(f, "request") /\ f["request"].t = "str"
                                THEN Some(f["request"].s) ELSE None,
                    cookies |-> IF Has(f, "cookies") /\ f["cookies"].t = "object"
                                THEN Some(f["cookies"]) ELSE None,
                    additional |-> [k \in DOMAIN f \ {"status", "request", "code", "cookies"}
                                       |-> f[k]]])
         ELSE None

\* solve(), lines 498-506: the mapping built from a decoded ExtendedResponse
extended_map(e) ==
    LET m0 == [status |-> JInt(e.status)]
        m1 == IF e.request # None THEN Put(m0, "code", JStr(e.request[1])) ELSE m0
        m2 == IF e.cookies # None THEN Put(m1, "cookies", e.cookies[1]) ELSE m1
    IN  Extend(m2, e.additional)

----------------------------------------------------------------------------
(* Utils::rename_params, Utils::check_hint_img, TwoCaptcha::default_params *)

\* TwoCaptcha::default_params
default_params(cl, p) ==
    LET p1 == Put(p, "key", cl.api_key)
        p2 == IF cl.callback # None THEN Put(p1, "callback", cl.callback[1]) ELSE p1
    IN  IF cl.soft_id # None THEN Put(p2, "softId", ToString(cl.soft_id[1])) ELSE p2

replacements ==
    << <<"caseSensitive", "regsense">>,
       <<"minLen", "min_len">>,
       <<"maxLen", "max_len">>,
       <<"minLength", "min_len">>,
       <<"maxLength", "max_len">>,
       <<"hintText", "textinstructions">>,
       <<"hintImg", "imginstructions">>,
       <<"url", "pageurl">>,
       <<"score", "min_score">>,
       <<"text", "textcaptcha">>,
       <<"rows", "recaptcharows">>,
       <<"cols", "recaptchacols">>,
       <<"previousId", "previousID">>,
       <<"canSkip", "can_no_answer">>,
       <<"apiServer", "api_server">>,
       <<"softId", "soft_id">>,
       <<"callback", "pingback">>,
       <<"datas", "data-s">> >>

\* the loop `for (old_key, new_key) in &replacements`, from entry i on
RECURSIVE apply_replacements(_, _, _)
apply_replacements(i, p, new_params) ==
    IF i > Len(replacements) THEN [params |-> p, new_params |-> new_params]
    ELSE LET old_key == replacements[i][1]
             new_key == replacements[i][2]
         IN  IF Has(p, old_key)
             THEN apply_replacements(i + 1, Del(p, old_key), Put(new_params, new_key, p[old_key]))
             ELSE apply_replacements(i + 1, p, new_params)

ProxyJson == "{\"type\":\"HTTPS\",\"uri\":\"u:p@1.2.3.4:80\"}"
\* proxy values that are not an object with string fields `type` and `uri`:
\* no JSON at all, an object without uri, an object whose type is a number
ProxyBare == "u:p@1.2.3.4:80"
ProxyNoUri == "{\"type\":\"HTTPS\"}"
ProxyIntType == "{\"type\":1,\"uri\":\"u:p@1.2.3.4:80\"}"

\* serde_json::from_str::<Value>(&proxy_str) with string fields uri and type
parse_proxy(proxy_str) ==
    IF proxy_str = ProxyJson THEN Some([uri |-> "u:p@1.2.3.4:80", type |-> "HTTPS"])
    ELSE None

\* Utils::rename_params; first three faulty variants: one leaves the old
\* names in the mapping, one lets a renamed entry replace an entry the
\* caller gave under the wire name, one does not treat `proxy`
rename_params_keeps_old(p) ==
    LET r == apply_replacements(1, p, EmptyMap)
        proxy == IF Has(r.params, "proxy") THEN parse_proxy(r.params["proxy"]) ELSE None
        np == IF proxy # None
              THEN Put(Put(r.new_params, "proxy", proxy[1].uri), "proxytype", proxy[1].type)
              ELSE r.new_params
    IN  Extend(np, Del(p, "proxy"))

rename_params_renamed_wins(p) ==
    LET r == apply_replacements(1, p, EmptyMap)
        proxy == IF Has(r.params, "proxy") THEN parse_proxy(r.params["proxy"]) ELSE None
        np == IF proxy # None
              THEN Put(Put(r.new_params, "proxy", proxy[1].uri), "proxytype", proxy[1].type)
              ELSE r.new_params
    IN  Extend(Del(r.params, "proxy"), np)

rename_params_nested_proxy(p) ==
    LET r == apply_replacements(1, p, EmptyMap) IN
    Extend(r.new_params, r.params)

rename_params(p) ==
    LET r == apply_replacements(1, p, EmptyMap)
        proxy == IF Has(r.params, "proxy") THEN parse_proxy(r.params["proxy"]) ELSE None
        np == IF proxy # None
              THEN Put(Put(r.new_params, "proxy", proxy[1].uri), "proxytype", proxy[1].type)
              ELSE r.new_params
    IN  Extend(np, Del(r.params, "proxy"))

\* `!hint.contains('.') && hint.len() > 50`
is_base64(file) == ~Contains(file, ".") /\ Len(file) > 50

\* Utils::check_hint_img; exists is the set of paths Path::exists() finds.
\* First a faulty variant that leaves the primary file in the parameters.
check_hint_img_leaves_file(p, files, exists) ==
    IF ~Has(p, "imginstructions")
    THEN [ok |-> TRUE, err |-> Ok(""), params |-> p, files |-> files]
    ELSE LET hint == p["imginstructions"]
             p1 == Del(p, "imginstructions")
         IN  IF is_base64(hint)
             THEN [ok |-> TRUE, err |-> Ok(""), params |-> p, files |-> files]
             ELSE IF hint \notin exists
             THEN [ok |-> FALSE, err |-> Err("Validation", "File not found: " \o hint),
                   params |-> p1, files |-> files]
             ELSE [ok |-> TRUE, err |-> Ok(""), params |-> p1,
                   files |-> Put(files, "imginstructions", hint)]

check_hint_img(p, files, exists) ==
    IF ~Has(p, "imginstructions")
    THEN [ok |-> TRUE, err |-> Ok(""), params |-> p, files |-> files]
    ELSE LET hint == p["imginstructions"]
             p1 == Del(p, "imginstructions")
         IN  IF is_base64(hint)
             THEN [ok |-> TRUE, err |-> Ok(""), params |-> p, files |-> files]
             ELSE IF hint \notin exists
             THEN [ok |-> FALSE, err |-> Err("Validation", "File not found: " \o hint),
                   params |-> p1, files |-> files]
             ELSE LET move == DOMAIN files = {} /\ Has(p1, "file")
                      p2 == IF move THEN Del(p1, "file") ELSE p1
                      f1 == IF move THEN Put(files, "file", p1["file"]) ELSE files
                  IN  [ok |-> TRUE, err |-> Ok(""), params |-> p2,
                       files |-> Put(f1, "imginstructions", hint)]

----------------------------------------------------------------------------
(* Utils::get_method, the file resolution of TwoCaptcha::audio, and        *)
(* Utils::extract_files.  Each returns [res, io]: its result, and the      *)
(* accesses to the file system and the network it made, in order.          *)

Access(kind, target) == [kind |-> kind, target |-> target]

\* the paths Path::exists() finds
ExistingPaths == {"cap.png", "hint.png", "say.mp3"}

\* base64::engine::general_purpose::STANDARD.encode on the contents of this model
encode(content) ==
    CASE content = "PNG" -> "UE5H"
      [] content = "ID3" -> "SUQz"
      [] content = "" -> ""

\* `reqwest::get(file).await?` and what follows it: dl is what the network did
download(file, dl) ==
    IF dl.t = "send_failed" THEN Err("Request", "error sending request")
    ELSE IF dl.status # 200
    THEN Err("Validation", "File could not be downloaded from url: " \o file)
    ELSE IF ~dl.body_ok THEN Err("Request", "error decoding response body")
    ELSE Ok(encode(dl.text))

\* Utils::get_method; first a faulty variant that tests for a URL before it
\* tests for inline data
get_method_url_first(file, exists, dl) ==
    IF file = "" THEN [res |-> Err("Validation", "File required"), io |-> <<>>]
    ELSE IF StartsWith(file, "http")
    THEN LET d == download(file, dl) IN
         [res |-> IF d.ok THEN Ok([method |-> "base64", body |-> d.val]) ELSE d,
          io |-> <<Access("get", file)>>]
    ELSE IF is_base64(file)
    THEN [res |-> Ok([method |-> "base64", body |-> file]), io |-> <<>>]
    ELSE IF file \notin exists
    THEN [res |-> Err("Validation", "File not found: " \o file),
          io |-> <<Access("exists", file)>>]
    ELSE [res |-> Ok([method |-> "post", file |-> file]),
          io |-> <<Access("exists", file)>>]

get_method(file, exists, dl) ==
    IF file = "" THEN [res |-> Err("Validation", "File required"), io |-> <<>>]
    ELSE IF is_base64(file)
    THEN [res |-> Ok([method |-> "base64", body |-> file]), io |-> <<>>]
    ELSE IF StartsWith(file, "http")
    THEN LET d == download(file, dl) IN
         [res |-> IF d.ok THEN Ok([method |-> "base64", body |-> d.val]) ELSE d,
          io |-> <<Access("get", file)>>]
    ELSE IF file \notin exists
    THEN [res |-> Err("Validation", "File not found: " \o file),
          io |-> <<Access("exists", file)>>]
    ELSE [res |-> Ok([method |-> "post", file |-> file]),
          io |-> <<Access("exists", file)>>]

\* the content tokio::fs::read finds in the files of this model
content_of(file) == IF EndsWith(file, ".mp3") THEN "ID3" ELSE "PNG"

\* tokio::fs::read(file).await?: a path that does not exist cannot be read,
\* and reading one that exists can fail too (read_ok)
read(file, exists, read_ok) ==
    IF file \notin exists THEN Err("Io", "No such file or directory (os error 2)")
    ELSE IF ~read_ok THEN Err("Io", "Permission denied (os error 13)")
    ELSE Ok(content_of(file))

\* TwoCaptcha::audio, lines 63-84: the `body` it computes from `file`
audio_body(file, exists, dl, read_ok) ==
    IF is_base64(file) THEN [res |-> Ok(file), io |-> <<>>]
    ELSE IF EndsWith(file, ".mp3") /\ StartsWith(file, "http")
    THEN [res |-> download(file, dl), io |-> <<Access("get", file)>>]
    ELSE IF EndsWith(file, ".mp3")
    THEN LET content == read(file, exists, read_ok) IN
         [res |-> IF content.ok THEN Ok(encode(content.val)) ELSE content,
          io |-> <<Access("read", file)>>]
    ELSE [res |-> Err("Validation",
                      "File extension is not .mp3 or it is not a base64 string."),
          io |-> <<>>]

\* format!("{:?}", v) of a Vec<&String>, without the brackets
RECURSIVE debug_items(_)
debug_items(v) ==
    IF v = <<>> THEN ""
    ELSE "\"" \o Head(v) \o "\"" \o (IF Len(v) > 1 THEN ", " ELSE "")
            \o debug_items(Tail(v))

\* format!("file_{}", i + 1) for the index i + 1
file_key(n) == "file_" \o ToString(n)

\* Utils::extract_files; first a faulty variant that reports the first
\* missing file only, then one that looks for the files before it counts
\* them
extract_files_first_missing(files, max_files, exists) ==
    IF Len(files) > max_files
    THEN [res |-> Err("Validation", "Too many files (max: " \o ToString(max_files) \o ")"),
          io |-> <<>>]
    ELSE LET not_exists == SelectSeq(files, LAMBDA f : f \notin exists)
             checks == [i \in 1..Len(files) |-> Access("exists", files[i])]
         IN  IF not_exists # <<>>
             THEN [res |-> Err("Validation", "File not found: " \o Head(not_exists)),
                   io |-> checks]
             ELSE [res |-> Ok([k \in {file_key(i) : i \in 1..Len(files)} |->
                                 files[CHOOSE i \in 1..Len(files) : file_key(i) = k]]),
                   io |-> checks]

extract_files_checks_first(files, max_files, exists) ==
    LET not_exists == SelectSeq(files, LAMBDA f : f \notin exists)
        checks == [i \in 1..Len(files) |-> Access("exists", files[i])]
    IN  IF not_exists # <<>>
        THEN [res |-> Err("Validation",
                          "File not found: [" \o debug_items(not_exists) \o "]"),
              io |-> checks]
        ELSE IF Len(files) > max_files
        THEN [res |-> Err("Validation",
                          "Too many files (max: " \o ToString(max_files) \o ")"),
              io |-> checks]
        ELSE [res |-> Ok([k \in {file_key(i) : i \in 1..Len(files)} |->
                            files[CHOOSE i \in 1..Len(files) : file_key(i) = k]]),
              io |-> checks]

extract_files(files, max_files, exists) ==
    IF Len(files) > max_files
    THEN [res |-> Err("Validation", "Too many files (max: " \o ToString(max_files) \o ")"),
          io |-> <<>>]
    ELSE LET not_exists == SelectSeq(files, LAMBDA f : f \notin exists)
             checks == [i \in 1..Len(files) |-> Access("exists", files[i])]
         IN  IF not_exists # <<>>
             THEN [res |-> Err("Validation",
                               "File not found: [" \o debug_items(not_exists) \o "]"),
                   io |-> checks]
             ELSE [res |-> Ok([k \in {file_key(i) : i \in 1..Len(files)} |->
                                 files[CHOOSE i \in 1..Len(files) : file_key(i) = k]]),
                   io |-> checks]

----------------------------------------------------------------------------
(* TwoCaptcha::send, get_result, wait_result and solve, between awaits *)

\* send(), lines 556-560: the task id in the text in_() returned; first a
\* faulty variant that keeps the separator
send_response_keeps_bar(response) ==
    IF ~StartsWith(response, "OK|")
    THEN Err("Api", "cannot recognize response " \o response)
    ELSE Ok(From(response, 2))

send_response(response) ==
    IF ~StartsWith(response, "OK|")
    THEN Err("Api", "cannot recognize response " \o response)
    ELSE Ok(From(response, 3))

NotReady == Err("Network", "CAPTCHA_NOT_READY")

\* get_result(), lines 576-593, in extended mode
get_result_extended(response) ==
    LET response_data == from_str_Value(response) IN
    IF response_data = None THEN Err("Json", "expected value")
    ELSE IF status_as_i64(response_data[1]) = Some(0) THEN NotReady
    ELSE IF status_as_i64(response_data[1]) # Some(1)
    THEN Err("Api", "Unexpected status in response: " \o response)
    ELSE Ok(response)

\* get_result(), lines 585-593, in plain mode; first a faulty variant that
\* compares with the text of its own error message
get_result_plain_misspelt(response) ==
    IF response = "CAPTCHA_NOT_READY" THEN NotReady
    ELSE IF ~StartsWith(response, "OK|")
    THEN Err("Api", "cannot recognize response " \o response)
    ELSE Ok(From(response, 3))

get_result_plain(response) ==
    IF response = "CAPCHA_NOT_READY" THEN NotReady
    ELSE IF ~StartsWith(response, "OK|")
    THEN Err("Api", "cannot recognize response " \o response)
    ELSE Ok(From(response, 3))

\* get_result(), from line 574 on: r is what res() returned
get_result(extended_response, r) ==
    IF ~r.ok THEN r
    ELSE IF extended_response THEN get_result_extended(r.val)
    ELSE get_result_plain(r.val)

\* the condition of the loop of wait_result(); first a faulty variant that
\* lets the loop run once more at the deadline
while_cond_inclusive(el, t) == el <= t

\* a second faulty variant: a loop that tests its condition only after the
\* first turn
while_cond_after_first(el, t) == el = 0 \/ el < t

while_cond(el, t) == el < t

\* the match of wait_result(): TRUE when the loop sleeps and continues; first
\* a faulty variant that retries after every error
retries_any_error(g) == ~g.ok

retries(g) == ~g.ok /\ g.kind = "Network"

Pending ==
    [tag |-> "pending", kind |-> "", msg |-> "", captcha_id |-> "",
     code |-> None, extended |-> None]
Failed(e) ==
    [tag |-> "err", kind |-> e.kind, msg |-> e.msg, captcha_id |-> "",
     code |-> None, extended |-> None]
\* CaptchaResult (types.rs:25-31)
CaptchaResult(captcha_id, code, extended) ==
    [tag |-> "ok", kind |-> "", msg |-> "", captcha_id |-> captcha_id,
     code |-> code, extended |-> extended]

\* solve(), lines 496-516: the outcome built from what wait_result() returned;
\* first a faulty variant that keeps the raw text next to the decoded mapping
solve_result_both(extended_response, captcha_id, code) ==
    IF extended_response
    THEN LET extended == from_str_ExtendedResponse(code) IN
         IF extended # None
         THEN CaptchaResult(captcha_id, Some(code), Some(extended_map(extended[1])))
         ELSE CaptchaResult(captcha_id, Some(code), None)
    ELSE CaptchaResult(captcha_id, Some(code), None)

solve_result(extended_response, captcha_id, code) ==
    IF extended_response
    THEN LET extended == from_str_ExtendedResponse(code) IN
         IF extended # None
         THEN CaptchaResult(captcha_id, None, Some(extended_map(extended[1])))
         ELSE CaptchaResult(captcha_id, Some(code), None)
    ELSE CaptchaResult(captcha_id, Some(code), None)

\* wait_result(), line 534
timeout_error(t) == Err("Timeout", "timeout " \o ToString(t) \o " exceeded")

----------------------------------------------------------------------------
(* The environment: the provider's answers, the file system, the inputs *)

SubmitTexts == {"OK|abc123", "OK|77", "OK|", "ERROR_ZERO_BALANCE", "OK|ERROR9", "MAINTENANCE"}

FetchTexts ==
    {"CAPCHA_NOT_READY", "OK|tok", "OK|", "OK|xERRORx", "ERROR_CAPTCHA_UNSOLVABLE",
     "CAPTCHA_NOT_READY", JNotReady, JReady, JCookies, JCoords, JStatus2, JNoStatus,
     JStrStatus, JArray, JError}

OtherTexts == {"12.5", "OK_REPORT_RECORDED", "ERROR_WRONG_USER_KEY"}

\* everything the network can do with a request whose answer is one of texts
HttpOutcomes(texts) ==
    {SendFailed}
      \cup {Response(200, "", FALSE)}
      \cup {Response(st, t, TRUE) : st \in Statuses, t \in texts}

\* the answers of a result endpoint that is never ready
NeverReady(extended_response) ==
    {Response(200, IF extended_response THEN JNotReady ELSE "CAPCHA_NOT_READY", TRUE)}

\* the answers of a provider that is never out of order: it accepts or
\* rejects a submission, and a result is not ready, ready or not delivered
TerseSubmit ==
    {Response(200, "OK|abc123", TRUE), Response(200, "OK|77", TRUE),
     Response(200, "ERROR_ZERO_BALANCE", TRUE)}
TerseFetch(extended_response) ==
    {Response(200, IF extended_response THEN JNotReady ELSE "CAPCHA_NOT_READY", TRUE),
     Response(200, IF extended_response THEN JCookies ELSE "OK|tok", TRUE),
     SendFailed}

FetchOutcomes ==
    IF provider = "never_ready" THEN NeverReady(client.extended_response)
    ELSE IF provider = "terse" THEN TerseFetch(client.extended_response)
    ELSE HttpOutcomes(FetchTexts)

SubmitOutcomes ==
    IF provider = "terse" THEN TerseSubmit ELSE HttpOutcomes(SubmitTexts)

\* the parameter maps handed to solve()
ParamInputs ==
    { [method |-> "post", text |-> "2+2"],
      [method |-> "post", file |-> "cap.png"],
      [method |-> "post", file |-> "cap.png", hintImg |-> "hint.png"],
      [method |-> "post", file |-> "cap.png", hintImg |-> "gone.png"] }

Timeouts == 0..MaxTimeout
Intervals == 1..MaxInterval
OptionOf(S) == {None} \cup {Some(v) : v \in S}

\* the timeout and polling_interval arguments of solve(); in the runs against
\* the terse provider the callers override the timeout or nothing
TimeoutArgs == IF provider = "terse" THEN {None, Some(MaxTimeout)} ELSE OptionOf(Timeouts)
IntervalArgs == IF provider = "terse" THEN {None} ELSE OptionOf(Intervals)
unwrap_or(o, d) == IF o = None THEN d ELSE o[1]

----------------------------------------------------------------------------
(* State *)

NoResult == [ok |-> FALSE, val |-> "", kind |-> "none", msg |-> ""]

NoObs ==
    [nSubmit |-> 0, nFetch |-> 0, nOther |-> 0, nSleep |-> 0, polled |-> FALSE,
     http |-> NoHttp, res |-> NoResult, get |-> NoResult,
     fetchDur |-> 0, sleepDur |-> 0]

Idle == [name |-> "idle", timeout |-> None, polling_interval |-> None]

NoArg == [fn |-> "none"]
NoRet == [done |-> FALSE]

\* TwoCaptcha::new
new(callback, default_timeout, recaptcha_timeout, polling_interval, extended_response) ==
    [api_key |-> "KEY",
     soft_id |-> Some(4580),
     callback |-> callback,
     default_timeout |-> unwrap_or(default_timeout, 120),
     recaptcha_timeout |-> unwrap_or(recaptcha_timeout, 600),
     polling_interval |-> unwrap_or(polling_interval, 10),
     max_files |-> 9,
     extended_response |-> unwrap_or(extended_response, FALSE)]

InitWith(callset, providers) ==
    /\ client \in {new(cb, Some(t), Some(MaxTimeout), Some(i), Some(e)) : cb \in {None, Some("http://cb")},
                                                  t \in Timeouts \ {0}, i \in Intervals,
                                                  e \in BOOLEAN}
    /\ provider \in providers
    /\ calls = callset
    /\ pc = [c \in AllCalls |-> "idle"]
    /\ op = [c \in AllCalls |-> Idle]
    /\ timeout = [c \in AllCalls |-> 0]
    /\ sleep_interval = [c \in AllCalls |-> 0]
    /\ id = [c \in AllCalls |-> ""]
    /\ elapsed = [c \in AllCalls |-> 0]
    /\ result = [c \in AllCalls |-> Pending]
    /\ net = {}
    /\ obs = [c \in AllCalls |-> NoObs]
    /\ arg = NoArg
    /\ ret = NoRet

Init == InitWith({"c1"}, {"arbitrary"})

----------------------------------------------------------------------------
(* Requests *)

\* seq numbers the requests of one call in the order they are sent
Request(c, seq, endpoint, encoding, p, files) ==
    [call |-> c, seq |-> seq, endpoint |-> endpoint, encoding |-> encoding,
     params |-> p, files |-> files]

Sent(o) == o.nSubmit + o.nFetch + o.nOther

\* the request ApiClient::in_ sends (api.rs:29-67)
in_request(c, seq, files, p) ==
    IF files # None THEN Request(c, seq, "in.php", "multipart", p, DOMAIN files[1])
    ELSE IF Has(p, "file") THEN Request(c, seq, "in.php", "multipart", Del(p, "file"), {"file"})
    ELSE Request(c, seq, "in.php", "form", p, {})

\* the request get_result() sends (solver.rs:565-574); first a faulty
\* variant that asks for the task of the other call
get_request_other_task(c, seq, cl, task) ==
    LET other == id[CHOOSE d \in AllCalls : d # c]
        p == [key |-> cl.api_key, action |-> "get", id |-> other]
    IN  Request(c, seq, "res.php", "query",
                IF cl.extended_response THEN Put(p, "json", "1") ELSE p, {})

get_request(c, seq, cl, task) ==
    LET p == [key |-> cl.api_key, action |-> "get", id |-> task] IN
    Request(c, seq, "res.php", "query",
            IF cl.extended_response THEN Put(p, "json", "1") ELSE p, {})

\* the fetches of call c that are in flight: a call awaits the future of its
\* own request; first a faulty variant in which a call takes any answer
Fetches_of_any_call(c) == {r \in net : r.endpoint = "res.php" /\ r.params["action"] = "get"}

Fetches(c) == {r \in net : r.call = c /\ r.endpoint = "res.php" /\ r.params["action"] = "get"}

\* how long tokio::time::sleep(d) takes when it ends lag late; first a faulty
\* variant that does not wait
sleep_zero(d, lag) == 0

sleep(d, lag) == d + lag

Return(c, r) ==
    /\ pc' = [pc EXCEPT ![c] = "done"]
    /\ result' = [result EXCEPT ![c] = r]

\* wait_result(), one turn of the loop at elapsed time el: the next fetch is
\* sent, or the loop ends and the call fails with Timeout
wait_result(c, el, t, task, net0, obs0) ==
    /\ elapsed' = [elapsed EXCEPT ![c] = el]
    /\ IF while_cond(el, t)
       THEN /\ pc' = [pc EXCEPT ![c] = "fetching"]
            /\ net' = net0 \cup {get_request(c, Sent(obs0) + 1, client, task)}
            /\ obs' = [obs EXCEPT ![c] = [obs0 EXCEPT !.nFetch = @ + 1]]
            /\ UNCHANGED result
       ELSE /\ Return(c, Failed(timeout_error(t)))
            /\ net' = net0
            /\ obs' = [obs EXCEPT ![c] = obs0]

----------------------------------------------------------------------------
(* Actions: each runs one call from one await to the next *)

\* solve(timeout, polling_interval, params) up to the await of the submit
\* request: send() builds the parameters, checks the hint image, reads the
\* files (read_ok: whether tokio::fs::read succeeds) and calls in_()
CallSolve(c) ==
    /\ c \in calls
    /\ pc[c] = "idle"
    /\ \E t \in TimeoutArgs, i \in IntervalArgs,
          input \in ParamInputs, read_ok \in BOOLEAN :
         LET p == rename_params(default_params(client, input))
             h == check_hint_img(p, EmptyMap, ExistingPaths)
             reads == h.ok /\ (h.files # EmptyMap \/ Has(h.params, "file"))
         IN  /\ op' = [op EXCEPT ![c] = [name |-> "solve", timeout |-> t,
                                         polling_interval |-> i]]
             /\ IF ~h.ok
                THEN /\ Return(c, Failed(h.err))
                     /\ UNCHANGED <<net, obs>>
                ELSE IF reads /\ ~read_ok
                THEN /\ Return(c, Failed(Err("Io", "No such file or directory")))
                     /\ UNCHANGED <<net, obs>>
                ELSE /\ pc' = [pc EXCEPT ![c] = "submitting"]
                     /\ net' = net \cup
                          {in_request(c, 1, IF h.files = EmptyMap THEN None ELSE Some(h.files),
                                      h.params)}
                     /\ obs' = [obs EXCEPT ![c].nSubmit = @ + 1]
                     /\ UNCHANGED result
    /\ UNCHANGED <<arg, ret, client, provider, calls, timeout, sleep_interval, id, elapsed>>

\* balance() and report(id, correct) up to the await of their request
CallOther(c) ==
    /\ c \in calls
    /\ pc[c] = "idle"
    /\ \E name \in {"balance", "report"} :
         /\ op' = [op EXCEPT ![c] = [name |-> name, timeout |-> None,
                                     polling_interval |-> None]]
         /\ net' = net \cup
              {Request(c, 1, "res.php", "query",
                       IF name = "balance"
                       THEN [key |-> client.api_key, action |-> "getbalance"]
                       ELSE [key |-> client.api_key, action |-> "reportgood", id |-> "abc123"],
                       {})}
    /\ pc' = [pc EXCEPT ![c] = "requesting"]
    /\ obs' = [obs EXCEPT ![c].nOther = @ + 1]
    /\ UNCHANGED <<arg, ret, client, provider, calls, timeout, sleep_interval, id, elapsed, result>>

\* solve(), line 490: whether the call waits for the result; first a faulty
\* variant that waits whatever the configuration
polls_always(cl) == TRUE

polls(cl) == cl.callback = None

\* solve(), line 483: `self.send(params).await?` with send() failing with e;
\* first a faulty variant that submits again after a Network error
send_error_resubmit(c, e, req, obs0) ==
    IF e.kind = "Network" /\ obs0.nSubmit < 2
    THEN /\ net' = (net \ {req}) \cup {[req EXCEPT !.seq = @ + 1]}
         /\ obs' = [obs EXCEPT ![c] = [obs0 EXCEPT !.nSubmit = @ + 1]]
         /\ UNCHANGED <<pc, result, id, timeout, sleep_interval, elapsed>>
    ELSE /\ Return(c, Failed(e))
         /\ net' = net \ {req}
         /\ obs' = [obs EXCEPT ![c] = obs0]
         /\ UNCHANGED <<id, timeout, sleep_interval, elapsed>>

send_error(c, e, req, obs0) ==
    /\ Return(c, Failed(e))
    /\ net' = net \ {req}
    /\ obs' = [obs EXCEPT ![c] = obs0]
    /\ UNCHANGED <<id, timeout, sleep_interval, elapsed>>

\* the submit request returns: send() ends, and solve() goes on to return at
\* once (callback) or to enter wait_result() and send the first fetch
SubmitReturn(c) ==
    /\ pc[c] = "submitting"
    /\ \E req \in {r \in net : r.call = c /\ r.endpoint = "in.php"},
          o \in SubmitOutcomes :
         LET r == in_(o)
             sent == IF r.ok THEN send_response(r.val) ELSE r
             obs0 == [obs[c] EXCEPT !.http = o, !.res = r]
             t == unwrap_or(op[c].timeout, client.default_timeout)
             i == unwrap_or(op[c].polling_interval, client.polling_interval)
         IN  IF ~sent.ok
             THEN send_error(c, sent, req, obs0)
             ELSE /\ id' = [id EXCEPT ![c] = sent.val]
                  /\ IF ~polls(client)
                     THEN /\ Return(c, CaptchaResult(sent.val, None, None))
                          /\ net' = net \ {req}
                          /\ obs' = [obs EXCEPT ![c] = obs0]
                          /\ UNCHANGED <<timeout, sleep_interval, elapsed>>
                     ELSE /\ timeout' = [timeout EXCEPT ![c] = t]
                          /\ sleep_interval' = [sleep_interval EXCEPT ![c] = i]
                          /\ wait_result(c, 0, t, sent.val, net \ {req},
                                         [obs0 EXCEPT !.polled = TRUE])
    /\ UNCHANGED <<arg, ret, client, provider, calls, op>>

\* a fetch returns after d seconds: get_result() ends, and wait_result()
\* returns its token, returns its error, or goes to sleep
FetchReturn(c) ==
    /\ pc[c] = "fetching"
    /\ \E req \in Fetches(c), o \in FetchOutcomes, d \in 0..MaxLatency :
         LET r == res(o)
             g == get_result(client.extended_response, r)
             obs0 == [obs[c] EXCEPT !.http = o, !.res = r, !.get = g, !.fetchDur = d]
         IN  /\ net' = net \ {req}
             /\ obs' = [obs EXCEPT ![c] = obs0]
             /\ elapsed' = [elapsed EXCEPT ![c] = @ + d]
             /\ IF g.ok
                THEN Return(c, solve_result(client.extended_response, id[c], g.val))
                ELSE IF retries(g)
                THEN /\ pc' = [pc EXCEPT ![c] = "sleeping"]
                     /\ UNCHANGED result
                ELSE Return(c, Failed(g))
    /\ UNCHANGED <<arg, ret, client, provider, calls, op, timeout, sleep_interval, id>>

\* the sleep ends: wait_result() tests its loop condition again
SleepReturn(c) ==
    /\ pc[c] = "sleeping"
    /\ \E lag \in 0..MaxSleepLag :
         LET d == sleep(sleep_interval[c], lag) IN
         wait_result(c, elapsed[c] + d, timeout[c], id[c], net,
                     [obs[c] EXCEPT !.nSleep = @ + 1, !.sleepDur = d,
                                    !.http = NoHttp, !.res = NoResult, !.get = NoResult])
    /\ UNCHANGED <<arg, ret, client, provider, calls, op, timeout, sleep_interval, id>>

\* f64::from_str on the balance texts of this model
parse_f64(text) == IF text \in {"12.5"} THEN Some(text) ELSE None

\* the request of balance() or report() returns
RequestReturn(c) ==
    /\ pc[c] = "requesting"
    /\ \E req \in {r \in net : r.call = c}, o \in HttpOutcomes(OtherTexts) :
         LET r == res(o) IN
         /\ net' = net \ {req}
         /\ obs' = [obs EXCEPT ![c] = [@ EXCEPT !.http = o, !.res = r]]
         /\ IF ~r.ok THEN Return(c, Failed(r))
            ELSE IF op[c].name = "balance" /\ parse_f64(r.val) = None
            THEN Return(c, Failed(Err("Api", "Invalid balance response: " \o r.val)))
            ELSE Return(c, CaptchaResult("", IF op[c].name = "balance" THEN Some(r.val) ELSE None,
                                         None))
    /\ UNCHANGED <<arg, ret, client, provider, calls, op, timeout, sleep_interval, id, elapsed>>

Returns(c) == SubmitReturn(c) \/ FetchReturn(c) \/ SleepReturn(c) \/ RequestReturn(c)

Next ==
    \E c \in AllCalls :
        \/ CallSolve(c)
        \/ CallOther(c)
        \/ SubmitReturn(c)
        \/ FetchReturn(c)
        \/ SleepReturn(c)
        \/ RequestReturn(c)

Spec == Init /\ [][Next]_vars

\* every request is answered and every sleep ends
Fairness == \A c \in AllCalls : WF_vars(Returns(c))

FairSpec == Spec /\ Fairness

\* one call on a client whose timeout and interval are left to the
\* arguments of the call, which take every value
LifeCycleInit ==
    /\ Init
    /\ client.default_timeout = MaxTimeout
    /\ client.polling_interval = 1

LifeCycleSpec == LifeCycleInit /\ [][Next]_vars /\ Fairness

\* two calls on one client, in every interleaving of their steps
TwoCallInit ==
    /\ InitWith(AllCalls, {"terse"})
    /\ client.callback = None
    /\ client.default_timeout = 1
    /\ client.polling_interval = 1

TwoCallSpec == TwoCallInit /\ [][Next]_vars

\* one call against a result endpoint that is never ready
NeverReadyInit == InitWith({"c1"}, {"never_ready"})

NeverReadySpec == NeverReadyInit /\ [][Next]_vars /\ Fairness

----------------------------------------------------------------------------
(* The entry points of the client: what each hands to solve(), and send()  *)
(* up to its request.  Each returns [res, io] like the functions of Utils. *)

\* `if let Some(p) = params { all_params.extend(p); }`
with_params(all_params, params) ==
    IF params = None THEN all_params ELSE Extend(all_params, params[1])

\* TwoCaptcha::normal, up to its call of solve()
normal(file, params, exists, dl) ==
    LET method == get_method(file, exists, dl) IN
    IF ~method.res.ok THEN method
    ELSE [res |-> Ok(with_params(method.res.val, params)), io |-> method.io]

\* TwoCaptcha::grid
grid(file, params, exists, dl) ==
    LET method == get_method(file, exists, dl) IN
    IF ~method.res.ok THEN method
    ELSE [res |-> Ok(with_params(Put(method.res.val, "recaptcha", "1"), params)),
          io |-> method.io]

\* TwoCaptcha::canvas
canvas(file, params, exists, dl) ==
    LET provided_params == IF params = None THEN EmptyMap ELSE params[1]
        method == get_method(file, exists, dl)
    IN  IF ~Has(provided_params, "hintText") /\ ~Has(provided_params, "hintImg")
        THEN [res |-> Err("Validation", "parameters required: hintText and/or hintImg"),
              io |-> <<>>]
        ELSE IF ~method.res.ok THEN method
        ELSE [res |-> Ok(with_params(Put(Put(method.res.val, "recaptcha", "1"),
                                         "canvas", "1"), params)),
              io |-> method.io]

\* TwoCaptcha::coordinates
coordinates(file, params, exists, dl) ==
    LET method == get_method(file, exists, dl) IN
    IF ~method.res.ok THEN method
    ELSE [res |-> Ok(with_params(Put(method.res.val, "coordinatescaptcha", "1"), params)),
          io |-> method.io]

\* TwoCaptcha::rotate: of what get_method returns, only `file` is taken over
rotate(files, params, exists, dl) ==
    LET file_method == get_method(files, exists, dl)
        all_params == IF file_method.res.ok /\ Has(file_method.res.val, "file")
                      THEN [file |-> file_method.res.val["file"]]
                      ELSE EmptyMap
    IN  IF ~file_method.res.ok THEN file_method
        ELSE [res |-> Ok(with_params(Put(all_params, "method", "rotatecaptcha"), params)),
              io |-> file_method.io]

\* TwoCaptcha::rotate_multiple
rotate_multiple(files, max_files, params, exists) ==
    LET extracted_files == extract_files(files, max_files, exists) IN
    IF ~extracted_files.res.ok THEN extracted_files
    ELSE [res |-> Ok(with_params(Extend([method |-> "rotatecaptcha"],
                                        extracted_files.res.val), params)),
          io |-> extracted_files.io]

\* TwoCaptcha::audio
audio(file, lang, params, exists, dl, read_ok) ==
    LET body == audio_body(file, exists, dl, read_ok) IN
    IF ~body.res.ok THEN body
    ELSE [res |-> Ok(with_params([body |-> body.res.val, method |-> "audio", lang |-> lang],
                                 params)),
          io |-> body.io]

\* TwoCaptcha::recaptcha, with version and enterprise left to their defaults
recaptcha(sitekey, url, params) ==
    [res |-> Ok(with_params([googlekey |-> sitekey, url |-> url,
                             method |-> "userrecaptcha", version |-> "v2",
                             enterprise |-> "0"], params)),
     io |-> <<>>]

\* the timeout an entry point hands to solve(): recaptcha() hands its own
\* (solver.rs:133), every other entry point None; first a faulty variant in
\* which recaptcha() hands None too
entry_timeout_default(e, cl) == IF e.fn = "solve" THEN e.timeout ELSE None

entry_timeout(e, cl) ==
    IF e.fn = "solve" THEN e.timeout
    ELSE IF e.fn = "recaptcha" THEN Some(cl.recaptcha_timeout)
    ELSE None

\* the polling interval an entry point hands to solve()
entry_interval(e) == IF e.fn = "solve" THEN e.polling_interval ELSE None

\* what entry point e.fn computes from its arguments
all_params(e, cl, exists, dl, read_ok) ==
    CASE e.fn = "normal" -> normal(e.file, e.params, exists, dl)
      [] e.fn = "grid" -> grid(e.file, e.params, exists, dl)
      [] e.fn = "canvas" -> canvas(e.file, e.params, exists, dl)
      [] e.fn = "coordinates" -> coordinates(e.file, e.params, exists, dl)
      [] e.fn = "rotate" -> rotate(e.file, e.params, exists, dl)
      [] e.fn = "rotate_multiple" -> rotate_multiple(e.files, cl.max_files, e.params, exists)
      [] e.fn = "audio" -> audio(e.file, "en", e.params, exists, dl, read_ok)
      [] e.fn = "recaptcha" -> recaptcha(e.sitekey, e.url, e.params)
      [] e.fn = "solve" -> [res |-> Ok(e.params), io |-> <<>>]

\* the reads of the files in paths, up to the first that fails
RECURSIVE read_all(_, _, _)
read_all(paths, exists, read_ok) ==
    IF paths = <<>> THEN [res |-> Ok(""), io |-> <<>>]
    ELSE LET content == read(Head(paths), exists, read_ok)
             rest == read_all(Tail(paths), exists, read_ok)
         IN  IF ~content.ok
             THEN [res |-> content, io |-> <<Access("read", Head(paths))>>]
             ELSE [res |-> rest.res, io |-> <<Access("read", Head(paths))>> \o rest.io]

\* the keys of the upload set, in the order this model reads their files
UploadOrder == <<"file", "imginstructions">>

\* send(), lines 539-552, and in_(), api.rs:45-53: the parameters and the
\* upload set of the submission, and the files read for it; first a faulty
\* variant that submits without the files it could not read
send_skips_unreadable(cl, params, exists, read_ok) ==
    LET p == rename_params(default_params(cl, params))
        h == check_hint_img(p, EmptyMap, exists)
        hint_io == IF Has(p, "imginstructions") /\ ~is_base64(p["imginstructions"])
                   THEN <<Access("exists", p["imginstructions"])>> ELSE <<>>
    IN  IF ~h.ok THEN [res |-> h.err, io |-> hint_io, params |-> h.params, files |-> None]
        ELSE LET keys == SelectSeq(UploadOrder, LAMBDA k : Has(h.files, k))
                 paths == IF h.files # EmptyMap THEN [i \in 1..Len(keys) |-> h.files[keys[i]]]
                          ELSE IF Has(h.params, "file") THEN <<h.params["file"]>>
                          ELSE <<>>
                 reads == read_all(paths, exists, read_ok)
             IN  [res |-> Ok(""), io |-> hint_io \o reads.io,
                  params |-> IF reads.res.ok THEN h.params ELSE Del(h.params, "file"),
                  files |-> IF h.files = EmptyMap \/ ~reads.res.ok THEN None
                            ELSE Some(h.files)]

send(cl, params, exists, read_ok) ==
    LET p == rename_params(default_params(cl, params))
        h == check_hint_img(p, EmptyMap, exists)
        hint_io == IF Has(p, "imginstructions") /\ ~is_base64(p["imginstructions"])
                   THEN <<Access("exists", p["imginstructions"])>> ELSE <<>>
    IN  IF ~h.ok THEN [res |-> h.err, io |-> hint_io, params |-> h.params, files |-> None]
        ELSE LET keys == SelectSeq(UploadOrder, LAMBDA k : Has(h.files, k))
                 paths == IF h.files # EmptyMap THEN [i \in 1..Len(keys) |-> h.files[keys[i]]]
                          ELSE IF Has(h.params, "file") THEN <<h.params["file"]>>
                          ELSE <<>>
                 reads == read_all(paths, exists, read_ok)
             IN  [res |-> reads.res, io |-> hint_io \o reads.io, params |-> h.params,
                  files |-> IF h.files = EmptyMap THEN None ELSE Some(h.files)]

----------------------------------------------------------------------------
(* The functions of Utils and the file resolution of audio(), each applied *)
(* on its own to one input                                                 *)

\* an input mapping of rename_params has at most MaxParams entries
MaxParams == 2
\* a batch of extract_files has at most MaxBatch files, or ten
MaxBatch == 3

OldNames == {replacements[i][1] : i \in 1..Len(replacements)}

RenameKeys ==
    OldNames \cup {"min_len", "max_len", "pageurl", "soft_id", "proxy", "proxytype", "method"}

ValuesOf(k) ==
    IF k = "proxy" THEN {ProxyJson, ProxyBare, ProxyNoUri, ProxyIntType} ELSE {"1", "2"}

\* the mappings over RenameKeys with at most n entries
RECURSIVE MapsUpTo(_)
MapsUpTo(n) ==
    IF n = 0 THEN {EmptyMap}
    ELSE LET smaller == MapsUpTo(n - 1) IN
         smaller \cup UNION {{Put(m, k, v) : m \in smaller, v \in ValuesOf(k)} :
                                k \in RenameKeys}

RenameInputs == MapsUpTo(MaxParams)

\* the base64 text of the test test_get_method_base64 (utils.rs:174), and a
\* text without a dot and longer than 50 that begins like a URL
InlinePng ==
    "iVBORw0KGgoAAAANSUhEUgAAAAEAAAABCAYAAAAfFcSJAAAADUlEQVR42mP8/5+hHgAHggJ/PchI7wAAAABJRU5ErkJggg=="
InlineHttp == "httpAAAAAAAAAAAAAAAAAAAAAAAAAAAAAAAAAAAAAAAAAAAAAAAAAAAAAA"

FileInputs ==
    {"", InlinePng, InlineHttp, "aGVsbG8=",
     "http://h/cap.png", "http://h/say.mp3", "https://h/cap",
     "cap.png", "say.mp3", "gone.png", "gone.mp3", "say.wav", "dir/gone.mp3"}

\* what the network does with the download of a file
DownloadOutcomes ==
    {SendFailed, Response(200, "PNG", TRUE), Response(200, "ID3", TRUE),
     Response(200, "", FALSE), Response(404, "", TRUE), Response(500, "", TRUE)}

HintInputs ==
    {[params |-> p, files |-> f] :
        p \in {[method |-> "post"],
               [imginstructions |-> "hint.png"],
               [imginstructions |-> "gone.png"],
               [imginstructions |-> InlinePng],
               [file |-> "cap.png", imginstructions |-> "hint.png"],
               [file |-> "cap.png", imginstructions |-> "gone.png"],
               [file |-> "cap.png", imginstructions |-> InlinePng]},
        f \in {EmptyMap, [file_1 |-> "cap.png"]}}

BatchPaths == {"cap.png", "hint.png", "gone.png", "lost.png"}

\* the sequences over BatchPaths of length n or less
RECURSIVE BatchesUpTo(_)
BatchesUpTo(n) ==
    IF n = 0 THEN {<<>>}
    ELSE LET shorter == BatchesUpTo(n - 1) IN
         shorter \cup {Append(b, f) : b \in shorter, f \in BatchPaths}

\* batches under a small limit, and batches of nine and ten files under the
\* limit of the client (max_files = 9, solver.rs:46)
BatchInputs ==
    {[files |-> b, max_files |-> m] : b \in BatchesUpTo(MaxBatch), m \in {MaxBatch - 1, 9}}
      \cup {[files |-> [i \in 1..n |-> f], max_files |-> 9] :
                n \in {9, 10}, f \in BatchPaths}

UtilArgs ==
    {[fn |-> "rename_params", params |-> m] : m \in RenameInputs}
      \cup {[fn |-> f, file |-> x] : f \in {"get_method", "audio"}, x \in FileInputs}
      \cup {[fn |-> "check_hint_img", params |-> h.params, files |-> h.files] :
                h \in HintInputs}
      \cup {[fn |-> "extract_files", files |-> b.files, max_files |-> b.max_files] :
                b \in BatchInputs}

UtilInit ==
    /\ client = new(None, Some(MaxTimeout), Some(MaxTimeout), Some(1), Some(FALSE))
    /\ provider = "arbitrary"
    /\ calls = {}
    /\ pc = [c \in AllCalls |-> "idle"]
    /\ op = [c \in AllCalls |-> Idle]
    /\ timeout = [c \in AllCalls |-> 0]
    /\ sleep_interval = [c \in AllCalls |-> 0]
    /\ id = [c \in AllCalls |-> ""]
    /\ elapsed = [c \in AllCalls |-> 0]
    /\ result = [c \in AllCalls |-> Pending]
    /\ net = {}
    /\ obs = [c \in AllCalls |-> NoObs]
    /\ arg \in UtilArgs
    /\ ret = NoRet

\* the function returned r = [res, io]; dl is what the network did with the
\* download, when there was one
Returned(r, dl) ==
    [done |-> TRUE, res |-> r.res, io |-> r.io,
     dl |-> IF \E i \in 1..Len(r.io) : r.io[i].kind = "get" THEN dl ELSE NoHttp]

Apply(fn) ==
    /\ arg.fn = fn
    /\ ~ret.done
    /\ UNCHANGED <<client, provider, calls, pc, op, timeout, sleep_interval,
                   id, elapsed, result, net, obs, arg>>

RenameParams ==
    /\ Apply("rename_params")
    /\ ret' = Returned([res |-> Ok(rename_params(arg.params)), io |-> <<>>], NoHttp)

GetMethod ==
    /\ Apply("get_method")
    /\ \E dl \in DownloadOutcomes :
         ret' = Returned(get_method(arg.file, ExistingPaths, dl), dl)

\* audio() up to its call of solve()
Audio ==
    /\ Apply("audio")
    /\ \E dl \in DownloadOutcomes, read_ok \in BOOLEAN :
         ret' = Returned(audio_body(arg.file, ExistingPaths, dl, read_ok), dl)

CheckHintImg ==
    /\ Apply("check_hint_img")
    /\ LET h == check_hint_img(arg.params, arg.files, ExistingPaths)
           checked == /\ Has(arg.params, "imginstructions")
                      /\ ~is_base64(arg.params["imginstructions"])
       IN  ret' = Returned([res |-> IF h.ok THEN Ok([params |-> h.params, files |-> h.files])
                                    ELSE h.err,
                            io |-> IF checked
                                   THEN <<Access("exists", arg.params["imginstructions"])>>
                                   ELSE <<>>],
                           NoHttp)

ExtractFiles ==
    /\ Apply("extract_files")
    /\ ret' = Returned(extract_files(arg.files, arg.max_files, ExistingPaths), NoHttp)

UtilNext ==
    \/ RenameParams
    \/ GetMethod
    \/ Audio
    \/ CheckHintImg
    \/ ExtractFiles

UtilSpec == UtilInit /\ [][UtilNext]_vars

----------------------------------------------------------------------------
(* The runs that start at an entry point of the client.                    *)

\* the arguments of the entry points in the runs that start at an entry point
EntryFiles == {InlinePng, "http://h/cap.png", "cap.png", "gone.png"}
AudioFiles == {InlinePng, "http://h/say.mp3", "say.mp3", "gone.mp3", "say.wav"}
EntryParams ==
    {None, Some([hintText |-> "pick"]), Some([hintImg |-> "hint.png"]),
     Some([file |-> "hint.png"])}
EntryBatches ==
    {<<"cap.png">>, <<"cap.png", "hint.png">>, <<"cap.png", "gone.png">>,
     [i \in 1..10 |-> "cap.png"]}

EntryArgs ==
    {[fn |-> f, file |-> x, params |-> p] :
        f \in {"normal", "grid", "canvas", "coordinates", "rotate"},
        x \in EntryFiles, p \in EntryParams}
      \cup {[fn |-> "audio", file |-> x, params |-> p] : x \in AudioFiles, p \in EntryParams}
      \cup {[fn |-> "rotate_multiple", files |-> b, params |-> p] :
                b \in EntryBatches, p \in EntryParams}
      \cup {[fn |-> "recaptcha", sitekey |-> "SK", url |-> "https://e.com", params |-> p] :
                p \in EntryParams}
      \cup {[fn |-> "solve", params |-> p, timeout |-> t, polling_interval |-> i] :
                p \in ParamInputs, t \in OptionOf(Timeouts), i \in OptionOf(Intervals)}

\* what a call of an entry point leaves for the properties: the outcome of
\* its resolution, its accesses, and what the environment answered them
Entered(r, dl, read_ok) ==
    Returned(r, dl) @@
        [read_ok |-> read_ok \/ ~\E i \in 1..Len(r.io) : r.io[i].kind = "read"]

\* an entry point is called: it resolves its input and calls solve(), which
\* runs send() up to the await of the submit request
CallEntry(c) ==
    /\ c \in calls
    /\ pc[c] = "idle"
    /\ arg = NoArg
    /\ \E e \in EntryArgs, dl \in DownloadOutcomes, read_ok \in BOOLEAN :
         LET a == all_params(e, client, ExistingPaths, dl, read_ok)
             s == send(client, IF a.res.ok THEN a.res.val ELSE EmptyMap,
                       ExistingPaths, read_ok)
         IN  /\ arg' = e
             /\ op' = [op EXCEPT ![c] = [name |-> "solve",
                                         timeout |-> entry_timeout(e, client),
                                         polling_interval |-> entry_interval(e)]]
             /\ IF ~a.res.ok
                THEN /\ ret' = Entered(a, dl, read_ok)
                     /\ Return(c, Failed(a.res))
                     /\ UNCHANGED <<net, obs>>
                ELSE IF ~s.res.ok
                THEN /\ ret' = Entered([res |-> s.res, io |-> a.io \o s.io], dl, read_ok)
                     /\ Return(c, Failed(s.res))
                     /\ UNCHANGED <<net, obs>>
                ELSE /\ ret' = Entered([res |-> a.res, io |-> a.io \o s.io], dl, read_ok)
                     /\ pc' = [pc EXCEPT ![c] = "submitting"]
                     /\ net' = net \cup {in_request(c, 1, s.files, s.params)}
                     /\ obs' = [obs EXCEPT ![c].nSubmit = @ + 1]
                     /\ UNCHANGED result
    /\ UNCHANGED <<client, provider, calls, timeout, sleep_interval, id, elapsed>>

EntryInit ==
    /\ InitWith({"c1"}, {"terse"})
    /\ client.callback = None
    /\ client.default_timeout = 1
    /\ client.polling_interval = 1
    /\ ~client.extended_response

EntryNext ==
    \E c \in AllCalls :
        \/ CallEntry(c)
        \/ SubmitReturn(c)
        \/ FetchReturn(c)
        \/ SleepReturn(c)

EntrySpec == EntryInit /\ [][EntryNext]_vars

----------------------------------------------------------------------------
(* Properties *)

Done(c) == pc[c] = "done"
Solve(c) == op[c].name = "solve"
FailedWith(c, kind) == Done(c) /\ result[c].tag = "err" /\ result[c].kind = kind
Resolved(c) == Done(c) /\ result[c].tag = "ok"
Polling(c) == pc[c] \in {"fetching", "sleeping"}

\* C1 as stated: against a result endpoint that is never ready, a solve call
\* that polls ends with a Timeout error at most T + I seconds after the
\* start of polling.
C1_WithinTimeoutPlusInterval ==
    \A c \in AllCalls :
        (provider = "never_ready" /\ Done(c) /\ obs[c].polled) =>
            /\ FailedWith(c, "Timeout")
            /\ elapsed[c] <= timeout[c] + sleep_interval[c]

C1_EndsInTimeout(c) ==
    (provider = "never_ready" /\ Done(c) /\ obs[c].polled) =>
        /\ FailedWith(c, "Timeout")
        /\ result[c].msg = "timeout " \o ToString(timeout[c]) \o " exceeded"
        /\ IF obs[c].nFetch = 0
           THEN elapsed[c] = 0 /\ timeout[c] = 0
           ELSE /\ obs[c].nSleep = obs[c].nFetch
                /\ obs[c].sleepDur >= sleep_interval[c]
                /\ timeout[c] <= elapsed[c]
                /\ elapsed[c] < timeout[c] + obs[c].fetchDur + obs[c].sleepDur

\* C1, amended: against a result endpoint that is never ready (and that
\* answers every fetch), a solve call that polls terminates, with a Timeout
\* error naming T, not before T and less than T plus the time its last fetch
\* and its last sleep (at least I) took after the start of polling.
C1_TimeoutAfterLastFetchAndSleep ==
    /\ [](\A c \in AllCalls : C1_EndsInTimeout(c))
    /\ \A c \in AllCalls :
         (provider = "never_ready" /\ Polling(c)) ~> FailedWith(c, "Timeout")

\* a never-ready endpoint was polled more than once and the call timed out
\* later than T + I
C1_Witness ==
    \E c \in AllCalls :
        /\ provider = "never_ready" /\ FailedWith(c, "Timeout")
        /\ obs[c].nFetch >= 2
        /\ elapsed[c] > timeout[c] + sleep_interval[c]

----------------------------------------------------------------------------
(* Steps of the polling loop *)

\* the step in which a fetch of call c returns
FetchReturns(c) == pc[c] = "fetching" /\ pc'[c] # "fetching"
\* the step in which the submit request of call c returns
SubmitReturns(c) == pc[c] = "submitting" /\ obs'[c].http # obs[c].http
\* the step in which a sleep of call c ends
SleepEnds(c) == pc[c] = "sleeping" /\ pc'[c] # "sleeping"

NoRequest(c) == {r \in net : r.call = c} = {}

\* call c goes to sleep: it neither returns nor sends anything
GoesToSleep(c) ==
    /\ pc'[c] = "sleeping"
    /\ result'[c] = Pending
    /\ obs'[c].nFetch = obs[c].nFetch
    /\ NoRequest(c)'

\* call c returns without another request
EndsAtOnce(c) ==
    /\ Done(c)'
    /\ obs'[c].nFetch = obs[c].nFetch
    /\ obs'[c].nSleep = obs[c].nSleep
    /\ NoRequest(c)'

\* a sleep of call c lasted one polling interval, and then the next fetch for
\* the same task went out, or the deadline had passed and the call timed out
SleptOneInterval(c) ==
    /\ obs'[c].nSleep = obs[c].nSleep + 1
    /\ obs'[c].sleepDur >= sleep_interval[c]
    /\ elapsed'[c] = elapsed[c] + obs'[c].sleepDur
    /\ IF elapsed'[c] < timeout[c]
       THEN /\ pc'[c] = "fetching"
            /\ obs'[c].nFetch = obs[c].nFetch + 1
            /\ \E r \in Fetches(c)' : r.params["id"] = id[c]
       ELSE FailedWith(c, "Timeout")' /\ NoRequest(c)'

\* C2: in plain mode, for every text res() hands to get_result(): the
\* not-ready sentinel makes the call sleep one polling interval and then fetch
\* again (or time out, when the deadline has passed); a text with the OK|
\* prefix resolves the call with the text after the prefix as its token; any
\* other text fails the call with an Api error and no further fetch.
C2_PlainModeResponses ==
    [][\A c \in AllCalls :
         /\ (~client.extended_response /\ FetchReturns(c) /\ obs'[c].res.ok) =>
              LET response == obs'[c].res.val IN
              /\ response = "CAPCHA_NOT_READY" => GoesToSleep(c)
              /\ (response # "CAPCHA_NOT_READY" /\ StartsWith(response, "OK|")) =>
                    /\ Resolved(c)' /\ EndsAtOnce(c)
                    /\ result'[c].captcha_id = id[c]
                    /\ result'[c].extended = None
                    /\ result'[c].code # None
                    /\ "OK|" \o result'[c].code[1] = response
              /\ (response # "CAPCHA_NOT_READY" /\ ~StartsWith(response, "OK|")) =>
                    /\ FailedWith(c, "Api")' /\ EndsAtOnce(c)
                    /\ result'[c].msg = "cannot recognize response " \o response
         /\ (~client.extended_response /\ SleepEnds(c)) => SleptOneInterval(c)
      ]_vars

\* a plain-mode call resolved with the token tok after a not-ready answer
C2_Witness ==
    \E c \in AllCalls :
        /\ ~client.extended_response /\ Resolved(c)
        /\ obs[c].nSleep >= 1 /\ obs[c].nFetch >= 2
        /\ obs[c].http.text = "OK|tok" /\ result[c].code = Some("tok")

\* every field of the decoded answer is in the mapping, `request` under the
\* name `code`
ReturnedWhole(extended, fields) ==
    \A k \in DOMAIN fields :
        LET name == IF k = "request" THEN "code" ELSE k IN
        Has(extended, name) /\ extended[name] = fields[k]

\* C3: in extended mode, for every text res() hands to get_result() that
\* decodes to an object with an integer status: status 0 makes the call sleep
\* one polling interval and fetch again; status 1 resolves the call with the
\* decoded structure returned whole, extra fields included; any other status
\* fails the call with an Api error.
C3_ExtendedModeResponses ==
    [][\A c \in AllCalls :
         /\ (/\ client.extended_response /\ FetchReturns(c) /\ obs'[c].res.ok
             /\ from_str_Value(obs'[c].res.val) # None
             /\ status_as_i64(from_str_Value(obs'[c].res.val)[1]) # None) =>
              LET response_data == from_str_Value(obs'[c].res.val)[1]
                  status == status_as_i64(response_data)[1]
              IN  /\ status = 0 => GoesToSleep(c)
                  /\ status = 1 =>
                        /\ Resolved(c)' /\ EndsAtOnce(c)
                        /\ result'[c].captcha_id = id[c]
                        /\ result'[c].code = None
                        /\ result'[c].extended # None
                        /\ ReturnedWhole(result'[c].extended[1], response_data.fields)
                  /\ status \notin {0, 1} => FailedWith(c, "Api")' /\ EndsAtOnce(c)
         /\ (client.extended_response /\ SleepEnds(c)) => SleptOneInterval(c)
      ]_vars

\* C4: during polling, every Network error get_result() returns (a status
\* other than 200, or the not-ready signal) makes the call sleep one polling
\* interval and then fetch again (or time out, when the deadline has passed),
\* never fail with that error; every error of another kind ends the call at
\* once with that error, with no sleep and no further fetch.
C4_NetworkErrorsRetried ==
    [][\A c \in AllCalls :
         /\ FetchReturns(c) =>
              LET o == obs'[c].http
                  e == obs'[c].get
              IN  /\ (o.t = "response" /\ o.status # 200) => e.kind = "Network"
                  /\ (o = Response(200, "CAPCHA_NOT_READY", TRUE) /\ ~client.extended_response)
                        => e.kind = "Network"
                  /\ (o = Response(200, JNotReady, TRUE) /\ client.extended_response)
                        => e.kind = "Network"
                  /\ (~e.ok /\ e.kind = "Network") => GoesToSleep(c)
                  /\ (~e.ok /\ e.kind # "Network") =>
                        /\ EndsAtOnce(c)
                        /\ result'[c].tag = "err"
                        /\ result'[c].kind = e.kind
                        /\ result'[c].msg = e.msg
         /\ SleepEnds(c) => SleptOneInterval(c)
         /\ ~FailedWith(c, "Network")' \/ obs'[c].nFetch = 0
      ]_vars

\* a call slept after a 500 answer, fetched again and then failed at once on
\* an error that is not a Network error
C4_Witness ==
    \E c \in AllCalls :
        /\ obs[c].nSleep >= 1 /\ obs[c].nFetch = obs[c].nSleep + 1
        /\ Done(c) /\ result[c].tag = "err"
        /\ result[c].kind \in {"Api", "Json", "Request"}

\* C5: a result fetch whose HTTP request fails before any response arrives
\* is retried: the call sleeps one polling interval instead of failing.
C5_TransportFailureRetried ==
    [][\A c \in AllCalls :
         (FetchReturns(c) /\ obs'[c].http.t = "send_failed") => GoesToSleep(c)
      ]_vars

\* C6: with a callback URL configured, a solve call never fetches or sleeps,
\* and when its submission succeeds it returns in that same step with an
\* outcome that carries the task id and neither token nor extended mapping.
C6_CallbackReturnsTaskIdOnly ==
    \A c \in AllCalls :
        (client.callback # None /\ Solve(c)) =>
            /\ pc[c] \in {"submitting", "done"}
            /\ obs[c].nFetch = 0 /\ obs[c].nSleep = 0 /\ ~obs[c].polled
            /\ elapsed[c] = 0
            /\ (obs[c].res.ok /\ StartsWith(obs[c].res.val, "OK|")) =>
                  /\ Resolved(c) /\ NoRequest(c)
                  /\ "OK|" \o id[c] = obs[c].res.val
                  /\ result[c].captcha_id = id[c]
                  /\ result[c].code = None
                  /\ result[c].extended = None

\* a call on a client with a callback returned the task id abc123
C6_Witness ==
    \E c \in AllCalls :
        /\ client.callback # None /\ Solve(c) /\ Resolved(c)
        /\ obs[c].nSubmit = 1 /\ result[c].captcha_id = "abc123"

\* C7: for every text in_() hands to send(): if it starts with OK|, the task
\* id is the text after the prefix, unchanged, and it is the id of the
\* outcome; any other text fails the call with an Api error ("cannot
\* recognize response") and the call never polls.
C7_SubmissionResponse ==
    [][\A c \in AllCalls :
         (SubmitReturns(c) /\ obs'[c].res.ok) =>
             LET response == obs'[c].res.val IN
             IF StartsWith(response, "OK|")
             THEN /\ "OK|" \o id'[c] = response
                  /\ obs'[c].polled = (client.callback = None)
                  /\ Resolved(c)' => result'[c].captcha_id = id'[c]
                  /\ ~FailedWith(c, "Api")'
             ELSE /\ FailedWith(c, "Api")'
                  /\ result'[c].msg = "cannot recognize response " \o response
                  /\ ~obs'[c].polled /\ obs'[c].nFetch = 0 /\ NoRequest(c)'
      ]_vars

\* the answer OK|abc123 gave the task id abc123 and the call is polling
C7_Witness ==
    \E c \in AllCalls :
        /\ Polling(c) /\ obs[c].polled /\ id[c] = "abc123"
        /\ \E r \in Fetches(c) : r.params["id"] = "abc123"

\* C8: submit and fetch classify an HTTP response in the same way and in
\* this order: a status other than 200 is a Network error carrying the
\* status; otherwise a payload containing ERROR anywhere is an Api error
\* carrying the payload; otherwise the text is returned unchanged.
C8_ResponseClassification ==
    \A c \in AllCalls :
        LET o == obs[c].http
            r == obs[c].res
        IN  (o.t = "response" /\ (o.status = 200 => o.body_ok)) =>
               IF o.status # 200
               THEN /\ ~r.ok /\ r.kind = "Network"
                    /\ Contains(r.msg, ToString(o.status))
               ELSE IF Contains(o.text, "ERROR")
               THEN ~r.ok /\ r.kind = "Api" /\ r.msg = o.text
               ELSE r.ok /\ r.val = o.text

\* a fetch was answered 200 with ERROR inside an OK| answer, after a submit
\* request that was answered 200 with a task id
C8_Witness ==
    \E c \in AllCalls :
        /\ obs[c].nSubmit = 1 /\ obs[c].nFetch >= 1
        /\ obs[c].http = Response(200, "OK|xERRORx", TRUE)
        /\ FailedWith(c, "Api") /\ result[c].msg = "OK|xERRORx"

\* C9: a solve call sends at most one submit request; an error raised before
\* the submission or by it ends the call with that error and without any
\* fetch; balance and report send exactly one request and end when it
\* returns, with the Network error if it returned one.
C9_SubmissionNeverRetried ==
    /\ [](\A c \in AllCalls :
            /\ obs[c].nSubmit <= 1
            /\ Solve(c) => obs[c].nOther = 0
            /\ op[c].name \in {"balance", "report"} =>
                  /\ obs[c].nOther = 1 /\ obs[c].nSubmit = 0
                  /\ obs[c].nFetch = 0 /\ obs[c].nSleep = 0)
    /\ [][\A c \in AllCalls :
            /\ (pc[c] = "idle" /\ Solve(c)' /\ obs'[c].nSubmit = 0) =>
                  /\ Done(c)' /\ result'[c].tag = "err"
                  /\ result'[c].kind \in {"Validation", "Io"}
                  /\ NoRequest(c)'
            /\ (SubmitReturns(c) /\ ~obs'[c].res.ok) =>
                  /\ Done(c)' /\ result'[c].tag = "err"
                  /\ result'[c].kind = obs'[c].res.kind
                  /\ result'[c].msg = obs'[c].res.msg
                  /\ obs'[c].nSubmit = 1 /\ obs'[c].nFetch = 0 /\ obs'[c].nSleep = 0
                  /\ NoRequest(c)'
            /\ (pc[c] = "requesting" /\ obs'[c] # obs[c]) =>
                  /\ Done(c)' /\ NoRequest(c)'
                  /\ ~obs'[c].res.ok =>
                        /\ result'[c].tag = "err"
                        /\ result'[c].kind = obs'[c].res.kind
       ]_vars

\* a solve call failed with the Network error of its only submit request
C9_Witness ==
    \E c \in AllCalls :
        /\ Solve(c) /\ FailedWith(c, "Network")
        /\ obs[c].nSubmit = 1 /\ obs[c].nFetch = 0

\* C10: a solve call has at most one fetch in flight, and it sends a fetch
\* only when none is in flight: the first when the submission has returned,
\* each later one when the previous fetch has returned and the sleep of one
\* polling interval that followed it has ended.
C10_PollingIsSerial ==
    /\ [](\A c \in AllCalls :
            /\ Cardinality(Fetches(c)) <= 1
            /\ Fetches(c) # {} <=> pc[c] = "fetching")
    /\ [][\A c \in AllCalls :
            obs'[c].nFetch # obs[c].nFetch =>
                /\ obs'[c].nFetch = obs[c].nFetch + 1
                /\ Fetches(c) = {}
                /\ \/ pc[c] = "submitting" /\ obs[c].nFetch = 0 /\ obs'[c].nSleep = 0
                   \/ /\ pc[c] = "sleeping"
                      /\ obs'[c].nSleep = obs[c].nSleep + 1
                      /\ obs'[c].nSleep = obs[c].nFetch
                      /\ obs'[c].sleepDur >= sleep_interval[c]
                      /\ sleep_interval[c] >= 1
       ]_vars

\* the second fetch of a call is in flight, alone
C10_Witness ==
    \E c \in AllCalls :
        /\ pc[c] = "fetching" /\ obs[c].nFetch = 2 /\ obs[c].nSleep = 1
        /\ Cardinality(Fetches(c)) = 1

----------------------------------------------------------------------------
(* The outcome of solve() *)

\* C11 as stated: every successful outcome of a solve call has exactly one of
\* its two shapes populated, the plain token or the extended mapping.
C11_ExactlyOneShape ==
    \A c \in AllCalls :
        (Resolved(c) /\ Solve(c)) =>
            (result[c].code = None <=> result[c].extended # None)

\* C11, amended: a successful outcome never has both shapes; it has exactly
\* one when no callback is configured, and neither (the task id alone) when
\* a callback is configured.
C11_OneShapeUnlessCallback ==
    \A c \in AllCalls :
        (Resolved(c) /\ Solve(c)) =>
            /\ ~(result[c].code # None /\ result[c].extended # None)
            /\ client.callback = None =>
                  (result[c].code = None <=> result[c].extended # None)
            /\ client.callback # None =>
                  (result[c].code = None /\ result[c].extended = None)

\* a solve call without callback resolved with the extended mapping alone
C11_Witness ==
    \E c \in AllCalls :
        /\ Resolved(c) /\ Solve(c) /\ client.callback = None
        /\ result[c].extended # None /\ result[c].code = None
        /\ obs[c].nFetch >= 1

\* C12 as stated: every error during a solve call reaches the caller as an
\* error outcome; in particular a ready extended-mode answer that cannot be
\* decoded into the structured shape (ExtendedResponse) fails the call, it
\* is not turned into a success.
C12_UndecodableAnswerFails ==
    [][\A c \in AllCalls :
         /\ (FetchReturns(c) /\ ~obs'[c].get.ok /\ ~retries(obs'[c].get)) =>
               (result'[c].tag = "err" /\ result'[c].kind = obs'[c].get.kind)
         /\ (/\ FetchReturns(c) /\ client.extended_response /\ obs'[c].get.ok
             /\ from_str_ExtendedResponse(obs'[c].get.val) = None) =>
               result'[c].tag = "err"
      ]_vars

----------------------------------------------------------------------------
(* Calls that share a client *)

\* everything that belongs to call c: its locals, its outcome, its requests
Local(c) ==
    <<pc[c], op[c], timeout[c], sleep_interval[c], id[c], elapsed[c], result[c],
      obs[c], {r \in net : r.call = c}>>

\* the outcome of a finished solve call that has submitted, from its own
\* arguments and the answers to its own requests
OwnOutcome(c) ==
    LET sent == IF obs[c].res.ok THEN send_response(obs[c].res.val) ELSE obs[c].res IN
    IF obs[c].nFetch = 0 /\ ~sent.ok THEN Failed(sent)
    ELSE IF client.callback # None THEN CaptchaResult(id[c], None, None)
    ELSE IF obs[c].get = NoResult
    THEN Failed(timeout_error(unwrap_or(op[c].timeout, client.default_timeout)))
    ELSE IF obs[c].get.ok
    THEN solve_result(client.extended_response, id[c], obs[c].get.val)
    ELSE Failed(obs[c].get)

\* C13: calls that run concurrently on one client share only its
\* configuration: no step changes a field of the client, every step changes
\* what belongs to one call and nothing of the other call, and the outcome
\* and the number of fetches of each call are those its own arguments and the
\* answers to its own requests give, whatever the other call does meanwhile.
C13_CallsShareOnlyConfiguration ==
    /\ [][/\ client' = client
          /\ \A c, d \in AllCalls :
                (c # d /\ Local(c)' # Local(c)) => Local(d)' = Local(d)
       ]_vars
    /\ [](\A c \in AllCalls :
            (Done(c) /\ Solve(c) /\ obs[c].nSubmit = 1) =>
                /\ result[c] = OwnOutcome(c)
                /\ obs[c].nFetch \in {obs[c].nSleep, obs[c].nSleep + 1}
                /\ \A r \in net : r.call # c)

\* two solve calls with different task ids are polling at the same time,
\* one asleep after its second fetch and one waiting for its first
C13_Witness ==
    /\ Solve("c1") /\ Solve("c2")
    /\ pc["c1"] = "sleeping" /\ obs["c1"].nFetch = 2
    /\ pc["c2"] = "fetching" /\ obs["c2"].nFetch = 1
    /\ id["c1"] # id["c2"]
    /\ timeout["c1"] # timeout["c2"]

----------------------------------------------------------------------------
(* Utils::rename_params *)

\* rename_params has been applied to the mapping arg.params
Renamed == arg.fn = "rename_params" /\ ret.done

\* no other entry of the input is sent under the wire name of entry i
NoCollision(i) ==
    /\ ~Has(arg.params, replacements[i][2])
    /\ \A j \in 1..Len(replacements) :
          (j # i /\ replacements[j][2] = replacements[i][2]) =>
              ~Has(arg.params, replacements[j][1])

\* C14 as stated: for every entry (old, new) of the rename table and every
\* input mapping that contains old with value v, the mapping rename_params
\* returns contains new with value v and does not contain old.
C14_RenamedUnderWireName ==
    Renamed =>
        \A i \in 1..Len(replacements) :
            LET old == replacements[i][1]
                new_key == replacements[i][2]
            IN  Has(arg.params, old) =>
                    /\ ~Has(ret.res.val, old)
                    /\ Has(ret.res.val, new_key)
                    /\ ret.res.val[new_key] = arg.params[old]

\* C14, amended: for every entry (old, new) and every input that contains
\* old with value v, the returned mapping does not contain old and contains
\* new; the value under new is v when the input contains neither the key new
\* itself nor another old name with the same wire name.
C14_RenamedUnlessCollision ==
    Renamed =>
        \A i \in 1..Len(replacements) :
            LET old == replacements[i][1]
                new_key == replacements[i][2]
            IN  Has(arg.params, old) =>
                    /\ ~Has(ret.res.val, old)
                    /\ Has(ret.res.val, new_key)
                    /\ NoCollision(i) => ret.res.val[new_key] = arg.params[old]

\* the input of the test test_rename_params, two of its entries
C14_Witness ==
    /\ Renamed
    /\ arg.params = [caseSensitive |-> "1", url |-> "2"]
    /\ ret.res.val = [regsense |-> "1", pageurl |-> "2"]

\* C15 as stated: every key of the input that is not an old name of the
\* rename table is in the returned mapping with the value it had.
C15_OtherKeysPassThrough ==
    Renamed =>
        \A k \in DOMAIN arg.params \ OldNames :
            Has(ret.res.val, k) /\ ret.res.val[k] = arg.params[k]

\* C15, amended: every key of the input that is neither an old name of the
\* rename table nor `proxy` is in the returned mapping with the value it had.
C15_OtherKeysButProxyPassThrough ==
    Renamed =>
        \A k \in DOMAIN arg.params \ (OldNames \cup {"proxy"}) :
            Has(ret.res.val, k) /\ ret.res.val[k] = arg.params[k]

\* the caller gave a wire name and the old name that is renamed to it: the
\* entry under the wire name came through with its value
C15_Witness ==
    /\ Renamed
    /\ arg.params = [url |-> "1", pageurl |-> "2"]
    /\ ret.res.val = [pageurl |-> "2"]

\* C16 as stated: a `proxy` value that parses as an object with string
\* fields type and uri gives proxy = uri and proxytype = type; a value that
\* does not gives no proxy key, and the normalization succeeds; the returned
\* proxy is never the serialized object.
C16_ProxyFlattened ==
    (Renamed /\ Has(arg.params, "proxy")) =>
        LET proxy == parse_proxy(arg.params["proxy"]) IN
        /\ ret.res.ok
        /\ proxy # None =>
              /\ Has(ret.res.val, "proxy") /\ ret.res.val["proxy"] = proxy[1].uri
              /\ Has(ret.res.val, "proxytype") /\ ret.res.val["proxytype"] = proxy[1].type
        /\ proxy = None => ~Has(ret.res.val, "proxy")
        /\ Has(ret.res.val, "proxy") => ret.res.val["proxy"] # arg.params["proxy"]

\* C16, amended: as stated, except that proxytype is the type of the proxy
\* only when the input has no proxytype key of its own; when it has one, the
\* value of that key is returned.
C16_ProxyFlattenedUnlessTypeGiven ==
    (Renamed /\ Has(arg.params, "proxy")) =>
        LET proxy == parse_proxy(arg.params["proxy"]) IN
        /\ ret.res.ok
        /\ proxy # None =>
              /\ Has(ret.res.val, "proxy") /\ ret.res.val["proxy"] = proxy[1].uri
              /\ Has(ret.res.val, "proxytype")
              /\ ret.res.val["proxytype"] =
                    IF Has(arg.params, "proxytype") THEN arg.params["proxytype"]
                    ELSE proxy[1].type
        /\ proxy = None =>
              /\ ~Has(ret.res.val, "proxy")
              /\ Has(ret.res.val, "proxytype") <=> Has(arg.params, "proxytype")
        /\ Has(ret.res.val, "proxy") => ret.res.val["proxy"] # arg.params["proxy"]

\* a proxy object and a renamed key went in; uri and type came out as two
\* plain parameters
C16_Witness ==
    /\ Renamed
    /\ arg.params = [proxy |-> ProxyJson, url |-> "1"]
    /\ ret.res.val = [proxy |-> "u:p@1.2.3.4:80", proxytype |-> "HTTPS", pageurl |-> "1"]

----------------------------------------------------------------------------
(* File resolution: Utils::get_method, audio(), Utils::check_hint_img and  *)
(* Utils::extract_files                                                    *)

Resolved_file == ret.done /\ arg.fn \in {"get_method", "audio"}

FailedAs(kind) == ~ret.res.ok /\ ret.res.kind = kind

\* C17: for every input without a dot and longer than 50 characters,
\* whatever its prefix, get_method makes no access to the file system or to
\* the network and returns method base64 with the input itself as body.
C17_InlineInputNoAccess ==
    (/\ ret.done /\ arg.fn = "get_method"
     /\ ~Contains(arg.file, ".") /\ Len(arg.file) > 50) =>
        /\ ret.io = <<>>
        /\ ret.res.ok
        /\ ret.res.val = [method |-> "base64", body |-> arg.file]

\* an inline input that begins like a URL was returned as the body
C17_Witness ==
    /\ ret.done /\ arg.fn = "get_method"
    /\ StartsWith(arg.file, "http") /\ Len(arg.file) > 50
    /\ ret.res.ok /\ ret.res.val["body"] = arg.file
    /\ ret.io = <<>>

\* C18 as stated: when the input is a remote URL, every failed download, a
\* status other than 200 or a failure of the transport, makes the resolution
\* fail with a Validation error that names the URL.
C18_FailedDownloadIsValidation ==
    (/\ Resolved_file
     /\ ret.dl.t = "send_failed" \/ (ret.dl.t = "response" /\ ret.dl.status # 200)) =>
        /\ FailedAs("Validation")
        /\ Contains(ret.res.msg, arg.file)

\* C19 as stated: for every local path that does not exist, the resolution
\* of a captcha file, of an audio file and of a hint image fails with a
\* Validation error, never with an error of another kind.
C19_MissingPathIsValidation ==
    /\ (/\ Resolved_file
        /\ arg.file # "" /\ ~is_base64(arg.file) /\ ~StartsWith(arg.file, "http")
        /\ arg.file \notin ExistingPaths) =>
           FailedAs("Validation")
    /\ (/\ ret.done /\ arg.fn = "check_hint_img"
        /\ Has(arg.params, "imginstructions")
        /\ ~is_base64(arg.params["imginstructions"])
        /\ arg.params["imginstructions"] \notin ExistingPaths) =>
           FailedAs("Validation")

TooMany == ret.done /\ arg.fn = "extract_files" /\ Len(arg.files) > arg.max_files

\* C20 as stated: a batch with more files than the maximum fails with a
\* Validation error that lists the count of its files and yields no mapping;
\* the count is checked before any file is looked for.
C20_TooManyFilesListsCount ==
    TooMany =>
        /\ FailedAs("Validation")
        /\ Contains(ret.res.msg, ToString(Len(arg.files)))
        /\ ret.io = <<>>

\* C20, amended: a batch with more files than the maximum fails with a
\* Validation error that names the maximum, not the count of its files, and
\* yields no mapping; the count is checked before any file is looked for, so
\* the result is the same whether or not the files exist.
C20_TooManyFilesNamesMaximum ==
    TooMany =>
        /\ FailedAs("Validation")
        /\ ret.res.msg = "Too many files (max: " \o ToString(arg.max_files) \o ")"
        /\ ret.io = <<>>

\* ten files that do not exist against the maximum of the client, nine
C20_Witness ==
    /\ TooMany
    /\ Len(arg.files) = 10 /\ arg.max_files = client.max_files
    /\ arg.files[1] \notin ExistingPaths
    /\ ret.res.msg = "Too many files (max: 9)"

\* extract_files has been applied to a batch that is not too long
Extracted == ret.done /\ arg.fn = "extract_files" /\ Len(arg.files) <= arg.max_files

\* C21: for a batch of n paths, n at most the maximum: if any path does not
\* exist, extract_files fails with a Validation error whose message holds
\* every missing path; otherwise it returns a mapping with exactly n entries
\* in which file_<i>, counted from 1, is the i-th path of the batch.
C21_BatchMappingOrAllMissing ==
    Extracted =>
        LET n == Len(arg.files)
            missing == {i \in 1..n : arg.files[i] \notin ExistingPaths}
        IN  /\ missing # {} =>
                  /\ FailedAs("Validation")
                  /\ \A i \in missing : Contains(ret.res.msg, arg.files[i])
            /\ missing = {} =>
                  /\ ret.res.ok
                  /\ DOMAIN ret.res.val = {"file_" \o ToString(i) : i \in 1..n}
                  /\ Cardinality(DOMAIN ret.res.val) = n
                  /\ \A i \in 1..n : ret.res.val["file_" \o ToString(i)] = arg.files[i]

\* a batch with two different missing paths after an existing one failed,
\* and the message names both
C21_Witness ==
    /\ Extracted
    /\ arg.files = <<"cap.png", "gone.png", "lost.png">>
    /\ ret.res.msg = "File not found: [\"gone.png\", \"lost.png\"]"

\* check_hint_img has been applied to parameters with a hint image
Hinted == ret.done /\ arg.fn = "check_hint_img" /\ Has(arg.params, "imginstructions")

\* C22: a base64-shaped imginstructions value stays in the parameters and
\* the upload set is unchanged; a path that exists is removed from the
\* parameters and added to the upload set, and the primary file parameter is
\* moved into the upload set when the set was empty; a path that does not
\* exist fails with a Validation error.
C22_HintImage ==
    Hinted =>
        LET hint == arg.params["imginstructions"] IN
        /\ (~Contains(hint, ".") /\ Len(hint) > 50) =>
              /\ ret.res.ok
              /\ ret.res.val.params = arg.params
              /\ ret.res.val.files = arg.files
        /\ (~(~Contains(hint, ".") /\ Len(hint) > 50) /\ hint \in ExistingPaths) =>
              /\ ret.res.ok
              /\ ~Has(ret.res.val.params, "imginstructions")
              /\ Has(ret.res.val.files, "imginstructions")
              /\ ret.res.val.files["imginstructions"] = hint
              /\ \A k \in DOMAIN arg.files : k # "imginstructions" =>
                    (Has(ret.res.val.files, k) /\ ret.res.val.files[k] = arg.files[k])
              /\ (arg.files = EmptyMap /\ Has(arg.params, "file")) =>
                    /\ ~Has(ret.res.val.params, "file")
                    /\ Has(ret.res.val.files, "file")
                    /\ ret.res.val.files["file"] = arg.params["file"]
        /\ (~(~Contains(hint, ".") /\ Len(hint) > 50) /\ hint \notin ExistingPaths) =>
              FailedAs("Validation")

\* the hint image and the primary file went from the parameters to an
\* upload set that was empty
C22_Witness ==
    /\ Hinted
    /\ arg.params = [file |-> "cap.png", imginstructions |-> "hint.png"]
    /\ arg.files = EmptyMap
    /\ ret.res.ok
    /\ ret.res.val.params = EmptyMap
    /\ ret.res.val.files = [file |-> "cap.png", imginstructions |-> "hint.png"]

----------------------------------------------------------------------------
(* Properties of the runs that start at an entry point.                    *)

\* the submit requests in flight
Submissions == {r \in net : r.endpoint = "in.php"}

\* the local paths the entry points are given in these runs
LocalPaths == ExistingPaths \cup {"gone.png", "gone.mp3", "say.wav"}

\* the text fields of request r that hold a local path
PathFields(r) == {k \in DOMAIN r.params : r.params[k] \in LocalPaths}

\* C23: a submission is multipart with the file attached whenever the task
\* carries a file (an upload set, a `file` parameter, or the file_<n> entries
\* of a batch) and a plain form only when it carries none; no local path is
\* sent as a plain text field.
C23_FilesGoMultipart ==
    \A r \in Submissions :
        /\ PathFields(r) = {}
        /\ r.encoding = "multipart" <=> r.files # {}
        /\ (arg.fn = "rotate_multiple" => r.encoding = "multipart")

\* the file_<n> fields of request r
BatchFields(r) == {k \in DOMAIN r.params : StartsWith(k, "file_")}

\* the kinds of captcha payload request r carries
Payloads(r) ==
    {k \in {"body", "file", "batch"} :
        \/ k = "body" /\ Has(r.params, "body")
        \/ k = "file" /\ "file" \in r.files
        \/ k = "batch" /\ BatchFields(r) # {}}

\* C24: every submission carries at most one of an inline body, an uploaded
\* file and a batch of file_<n> files, and at most max_files files,
\* whatever extra parameters the caller passes.
C24_OnePayload ==
    \A r \in Submissions :
        /\ Cardinality(Payloads(r)) <= 1
        /\ Cardinality(BatchFields(r)) <= client.max_files

\* the file accesses the call has made, in order
Accesses == IF ret.done THEN ret.io ELSE <<>>

\* C25: within a call, every read of a local file comes after an existence
\* check of the same path.
C25_ReadAfterExists ==
    \A i \in 1..Len(Accesses) :
        Accesses[i].kind = "read" =>
            \E j \in 1..(i - 1) : Accesses[j] = Access("exists", Accesses[i].target)

\* the last file access of the call, a read or a download, failed
InputFailed ==
    /\ ret.done /\ arg.fn \notin {"none", "solve"}
    /\ Len(ret.io) > 0
    /\ LET last == ret.io[Len(ret.io)] IN
        \/ last.kind = "read" /\ (~ret.read_ok \/ last.target \notin ExistingPaths)
        \/ last.kind = "get" /\ ~download(last.target, ret.dl).ok

\* C26: a failed read or download of the captcha input ends the call: the
\* access is made once, the call is Failed with that error, and no submit
\* or fetch request is issued.
C26_InputFailureIsTerminal ==
    InputFailed =>
        /\ Cardinality({i \in 1..Len(ret.io) : ret.io[i] = ret.io[Len(ret.io)]}) = 1
        /\ ~ret.res.ok
        /\ pc["c1"] = "done" /\ result["c1"] = Failed(ret.res)
        /\ obs["c1"].nSubmit = 0 /\ obs["c1"].nFetch = 0
        /\ net = {}

C26_Witness ==
    /\ InputFailed
    /\ arg.fn = "normal" /\ arg.file = "cap.png"
    /\ ret.io = <<Access("exists", "cap.png"), Access("read", "cap.png")>>
    /\ result["c1"] = Failed(Err("Io", "Permission denied (os error 13)"))

----------------------------------------------------------------------------
(* The task id of a call *)

\* C27: the task id of a call is the one its own submission returned, every
\* fetch of the call carries it, and so does the outcome the call returns;
\* no fetch of one call carries the task id of another call.
C27_OwnTaskId ==
    /\ [][\A c \in AllCalls :
            id'[c] # id[c] =>
                /\ pc[c] = "submitting"
                /\ obs'[c].res.ok
                /\ "OK|" \o id'[c] = obs'[c].res.val
         ]_vars
    /\ [](\A c \in AllCalls :
            /\ \A r \in Fetches(c) : r.params["id"] = id[c]
            /\ (Solve(c) /\ result[c].tag = "ok") => result[c].captcha_id = id[c]
            /\ \A r \in net :
                 (/\ r.endpoint = "res.php" /\ r.params["action"] = "get"
                  /\ r.call # c /\ id[r.call] # id[c]) =>
                     r.params["id"] # id[c])

\* both calls wait for a fetch, each for a task id of its own
C27_Witness ==
    /\ Solve("c1") /\ Solve("c2")
    /\ Fetches("c1") # {} /\ Fetches("c2") # {}
    /\ id["c1"] = "abc123" /\ id["c2"] = "77"

----------------------------------------------------------------------------
(* The life cycle of a solve call *)

\* the steps a solve call can take from one await to the next
Steps ==
    {<<"idle", "submitting">>, <<"idle", "done">>,
     <<"submitting", "fetching">>, <<"submitting", "done">>,
     <<"fetching", "sleeping">>, <<"fetching", "done">>,
     <<"sleeping", "fetching">>, <<"sleeping", "done">>}

\* what call c has sent and returned
Trace(c) == <<result[c], obs[c].nSubmit, obs[c].nFetch, obs[c].nOther>>

\* C28 as stated: a solve call that ends with an Ok outcome has been through
\* Polling.
C28_ResolvedThroughPolling ==
    \A c \in AllCalls : (Solve(c) /\ Resolved(c)) => obs[c].polled

\* C28: a solve call goes Submitting -> Polling -> Resolved, or from
\* Submitting straight to an Ok outcome that carries only the task id when a
\* callback is configured, or ends in Failed.  With every request and sleep
\* returning it reaches one outcome, Ok or Err, having started each fetch
\* after the first a polling interval later and before the timeout, and
\* sends nothing after it.
C28_LifeCycle ==
    /\ [][\A c \in AllCalls :
            /\ (Solve(c) /\ pc'[c] # pc[c]) => <<pc[c], pc'[c]>> \in Steps
            /\ Done(c) => (pc'[c] = "done" /\ Trace(c)' = Trace(c))
         ]_vars
    /\ [](\A c \in AllCalls :
            Solve(c) =>
                /\ Done(c) <=> result[c].tag \in {"ok", "err"}
                /\ Done(c) => \A r \in net : r.call # c
                /\ Resolved(c) => obs[c].polled = (client.callback = None)
                /\ Polling(c) => (obs[c].polled /\ client.callback = None)
                /\ (obs[c].polled /\ obs[c].nFetch > 0) =>
                       (obs[c].nFetch - 1) * sleep_interval[c] < timeout[c]
                /\ obs[c].nSubmit <= 1
                /\ (pc[c] = "submitting" \/ Polling(c)) => obs[c].nSubmit = 1)
    /\ \A c \in AllCalls : (Solve(c) /\ ~Done(c)) ~> Done(c)

\* a call is resolved by its second fetch
C28_Witness ==
    /\ Solve("c1") /\ Resolved("c1")
    /\ obs["c1"].polled /\ obs["c1"].nFetch = 2 /\ obs["c1"].nSleep = 1
    /\ net = {}

----------------------------------------------------------------------------
(* The deadline and the interval of polling *)

\* C29: the polling deadline of a call is the timeout given to solve(), for
\* recaptcha() the reCAPTCHA timeout of the client (600 s unless configured),
\* and for every other entry point the default timeout (120 s unless
\* configured); the polling interval is the one given to solve() or else the
\* configured one (10 s unless configured).
C29_DeadlineAndInterval ==
    /\ LET defaults == new(None, None, None, None, None) IN
        /\ defaults.default_timeout = 120
        /\ defaults.recaptcha_timeout = 600
        /\ defaults.polling_interval = 10
    /\ \A c \in calls :
        obs[c].polled =>
            /\ timeout[c] =
                 IF arg.fn = "solve" /\ arg.timeout # None THEN arg.timeout[1]
                 ELSE IF arg.fn = "recaptcha" THEN client.recaptcha_timeout
                 ELSE client.default_timeout
            /\ sleep_interval[c] =
                 IF arg.fn = "solve" /\ arg.polling_interval # None
                 THEN arg.polling_interval[1]
                 ELSE client.polling_interval

\* a call of recaptcha() polls with the reCAPTCHA timeout, which is not the
\* default timeout of its client
C29_Witness ==
    /\ arg.fn = "recaptcha"
    /\ Polling("c1") /\ obs["c1"].nFetch = 2
    /\ timeout["c1"] = client.recaptcha_timeout
    /\ client.recaptcha_timeout > client.default_timeout
    /\ elapsed["c1"] >= client.default_timeout

----------------------------------------------------------------------------
(* The payload of the image entry points *)

\* the call is one of an image entry point whose extra parameters do not
\* name the payload themselves
ImageCall ==
    /\ arg.fn \in {"normal", "grid", "canvas", "coordinates", "rotate"}
    /\ arg.params = None \/ (~Has(arg.params[1], "file") /\ ~Has(arg.params[1], "body"))

\* C30: the submission of an image entry point carries an inline input
\* verbatim as `body` and a local path as the uploaded `file`.
C30_PayloadReachesSubmission ==
    \A r \in Submissions :
        ImageCall =>
            /\ is_base64(arg.file) =>
                 (Has(r.params, "body") /\ r.params["body"] = arg.file)
            /\ arg.file \in ExistingPaths =>
                 ("file" \in r.files /\ ret.res.val["file"] = arg.file)

----------------------------------------------------------------------------
(* The deadline of the polling loop *)

\* C31: a polling call fetches only while its elapsed time is below its
\* timeout.  The first fetch follows the submission at once; every later
\* fetch follows one sleep of the polling interval; with a timeout of zero
\* the call fails with Timeout without a fetch; and a sleep that ends at or
\* past the timeout is followed by Timeout, not by a fetch.
C31_FetchOnlyBeforeDeadline ==
    /\ [](\A c \in AllCalls :
            /\ pc[c] = "fetching" => (obs[c].polled /\ elapsed[c] < timeout[c])
            /\ (Solve(c) /\ obs[c].polled /\ timeout[c] = 0) =>
                   /\ obs[c].nFetch = 0 /\ obs[c].nSleep = 0
                   /\ Done(c) /\ result[c] = Failed(timeout_error(0)))
    /\ [][\A c \in AllCalls :
            /\ (pc[c] = "submitting" /\ obs'[c].polled /\ timeout'[c] > 0) =>
                   /\ pc'[c] = "fetching"
                   /\ elapsed'[c] = 0
                   /\ obs'[c].nFetch = 1 /\ obs'[c].nSleep = 0
            /\ (pc[c] = "sleeping" /\ pc'[c] # "sleeping") =>
                   /\ obs'[c].nSleep = obs[c].nSleep + 1
                   /\ obs'[c].nSleep = obs[c].nFetch
                   /\ obs'[c].sleepDur >= sleep_interval[c]
                   /\ elapsed'[c] = elapsed[c] + obs'[c].sleepDur
                   /\ IF elapsed'[c] < timeout[c]
                      THEN /\ pc'[c] = "fetching"
                           /\ obs'[c].nFetch = obs[c].nFetch + 1
                      ELSE /\ pc'[c] = "done"
                           /\ result'[c] = Failed(timeout_error(timeout[c]))
                           /\ obs'[c].nFetch = obs[c].nFetch
                           /\ Fetches(c)' = {}
            /\ obs'[c].nFetch # obs[c].nFetch => pc[c] \in {"submitting", "sleeping"}
       ]_vars

\* a call has timed out after its second sleep ended at the deadline or later
C31_Witness ==
    /\ Solve("c1") /\ FailedWith("c1", "Timeout")
    /\ obs["c1"].nFetch = 2 /\ obs["c1"].nSleep = 2
    /\ elapsed["c1"] >= timeout["c1"]

----------------------------------------------------------------------------
(* Utils::rename_params: names that meet under one wire name *)

\* what send() submits for the parameters arg.params (solver.rs:539-540)
Normalized == rename_params(default_params(client, arg.params))

\* C32: of two old names with one wire name the value of the later table
\* entry is kept; a value the input holds under a wire name is kept and the
\* value renamed to that name is dropped; no old name stays in the output
\* next to its wire name.  The same holds after default_params has added the
\* client's own softId.
C32_CollisionsResolved ==
    Renamed =>
        /\ \A i, j \in 1..Len(replacements) :
              (/\ i < j /\ replacements[i][2] = replacements[j][2]
               /\ Has(arg.params, replacements[i][1])
               /\ Has(arg.params, replacements[j][1])
               /\ ~Has(arg.params, replacements[j][2])) =>
                  ret.res.val[replacements[j][2]] = arg.params[replacements[j][1]]
        /\ \A i \in 1..Len(replacements) :
              /\ Has(arg.params, replacements[i][2]) =>
                    /\ Has(ret.res.val, replacements[i][2])
                    /\ ret.res.val[replacements[i][2]] = arg.params[replacements[i][2]]
              /\ ~Has(ret.res.val, replacements[i][1])
              /\ ~Has(Normalized, replacements[i][1])
        /\ Normalized["soft_id"] =
              IF Has(arg.params, "soft_id") THEN arg.params["soft_id"]
              ELSE ToString(client.soft_id[1])

\* minLen and minLength are both given: min_len holds the value of minLength
C32_Witness ==
    /\ Renamed
    /\ arg.params = [minLen |-> "1", minLength |-> "2"]
    /\ ret.res.val = [min_len |-> "2"]

============================================================================
